---- MODULE Spec2Model ----
(***************************************************************************)
(* Model of the point-of-sale front end: the authentication provider       *)
(* (AuthContext), the route guard (ProtectedRoutes), the inventory context *)
(* (InventoryContext over useInventory) and the submit handlers of the     *)
(* sales page and the supplier-entry page.                                 *)
(***************************************************************************)
EXTENDS Integers, Sequences, FiniteSets, TLC

VARIABLES
    currentUser,    \* AuthProvider state: a user record, or Null
    isLoading,      \* AuthProvider state
    timers,         \* pending 50 ms timeouts, in creation order
    pathname,       \* usePathname()
    pushed,         \* target of a router.push not yet applied, or NoPush
    view,           \* what ProtectedRoutes returned at the last render
    lastCall,       \* history: the most recent login / logout call
    failedOpen,     \* history: a login returned false and no login call followed
    logoutOpen,     \* history: logout was called and no successful login followed
    inventory,      \* useInventory state: the entries of the inventory object
    isInventoryLoaded,
    posResult,      \* the last call of getPointsOfSaleForUser and what it returned
    lookup,         \* the last call of getProductDetailsForUser and what it returned
    form,           \* SalesLogPage: the values of the sales form
    salesHistory,   \* SalesLogPage state
    supplierForm,   \* SuppliersPage: the values of the supplier-entry form
    supplierHistory,\* SuppliersPage state
    request,        \* last request handed to fetch by a submit handler
    toast,          \* title of the last toast
    localStorage,   \* window.localStorage: the two sales-history entries
    caja,           \* CajaPage state: the three daily incomes, or NotLoaded
    allSalesData,   \* GraficaPage state
    allWholesaleSalesData,  \* GraficaPage state
    desglose,       \* DesgloseVentasPage state, one field per useState
    inventoryTable, \* InventoryTable state, one field per useState
    salesSuggest,   \* SalesLogPage: the state of the suggestion list
    supplierSuggest \* SuppliersPage: the state of the suggestion list

authVars == <<currentUser, isLoading, timers, pathname, pushed, view,
              lastCall, failedOpen, logoutOpen>>
invVars == <<inventory, isInventoryLoaded, posResult, lookup>>
pageVars == <<form, salesHistory, supplierForm, supplierHistory, request, toast>>
storageVars == <<localStorage, caja, allSalesData, allWholesaleSalesData>>
suggestVars == <<inventoryTable, salesSuggest, supplierSuggest>>
otherVars == <<storageVars, desglose, suggestVars>>
salesOtherVars == <<storageVars, desglose, inventoryTable, supplierSuggest>>
supplierOtherVars == <<storageVars, desglose, inventoryTable, salesSuggest>>
vars == <<authVars, invVars, pageVars, otherVars>>

-----------------------------------------------------------------------------
(* Bounds of the model.                                                    *)

MaxTimers == 3
MaxItems == 2       \* lines of the sales form
MaxQuantity == 2    \* largest quantity typed into a line
MaxHistory == 1     \* records kept in a page's history
MaxClock == 1
DaysInMonth == 2        \* days of a month of the calendar the dates live in
MonthsInYear == 2       \* months of a year of that calendar       \* distinct dateTime values the backend hands out

-----------------------------------------------------------------------------
(* AuthContext                                                             *)

Null == [id |-> "null", name |-> "null", username |-> "null",
         password |-> "null", allowedPOS |-> <<>>]

\* The value of an argument the caller left out (UserSwitcher calls login(userId)).
Undefined == "undefined-value"

mockUsers ==
    << [id |-> "user-0", name |-> "Ningun Usuario Seleccionado", username |-> "",
        password |-> "", allowedPOS |-> <<>>],
       [id |-> "admin-user", name |-> "Administrador", username |-> "admin",
        password |-> "adminpassword", allowedPOS |-> <<"*">>],
       [id |-> "mainstore-user", name |-> "Usuario Tienda Principal",
        username |-> "tienda", password |-> "tiendapassword",
        allowedPOS |-> <<"Main Store">>],
       [id |-> "warehouse-user", name |-> "Usuario Almacen", username |-> "almacen",
        password |-> "almacenpassword", allowedPOS |-> <<"Warehouse">>] >>

Users == {mockUsers[i] : i \in DOMAIN mockUsers}

\* Array.prototype.find with the predicate given as the set of matching elements:
\* the first element of the array in the set, or Null.
Find(arr, matching) ==
    IF \E i \in DOMAIN arr : arr[i] \in matching
    THEN arr[CHOOSE i \in DOMAIN arr :
                 /\ arr[i] \in matching
                 /\ \A j \in DOMAIN arr : arr[j] \in matching => i <= j]
    ELSE Null

\* mockUsers.find(u => u.id === 'user-0') || null
noUser == Find(mockUsers, {u \in Users : u.id = "user-0"})

\* mockUsers.find(user => user.username === username && user.password === password)
userToLogin(username, password) ==
    Find(mockUsers, {u \in Users : u.username = username /\ u.password = password})

\* The boolean login returns.
loginReturns(username, password) == userToLogin(username, password) # Null

\* The callback each kind of timer runs: [currentUser, isLoading, push].
NoPush == "none"

\* timerCallback with the login timeout installing the placeholder instead of
\* the user that logged in.
timerCallback_loginDropsUser(t) ==
    CASE t.kind = "mount"  -> [currentUser |-> noUser, isLoading |-> FALSE, push |-> NoPush]
      [] t.kind = "login"  -> [currentUser |-> noUser, isLoading |-> FALSE, push |-> NoPush]
      [] t.kind = "logout" -> [currentUser |-> noUser, isLoading |-> FALSE, push |-> "/login"]

\* timerCallback with the logout timeout leaving isLoading set.
timerCallback_logoutKeepsLoading(t) ==
    CASE t.kind = "mount"  -> [currentUser |-> noUser, isLoading |-> FALSE, push |-> NoPush]
      [] t.kind = "login"  -> [currentUser |-> t.user, isLoading |-> FALSE, push |-> NoPush]
      [] t.kind = "logout" -> [currentUser |-> noUser, isLoading |-> TRUE, push |-> "/login"]

timerCallback(t) ==
    CASE t.kind = "mount"  -> [currentUser |-> noUser, isLoading |-> FALSE, push |-> NoPush]
      [] t.kind = "login"  -> [currentUser |-> t.user, isLoading |-> FALSE, push |-> NoPush]
      [] t.kind = "logout" -> [currentUser |-> noUser, isLoading |-> FALSE, push |-> "/login"]

-----------------------------------------------------------------------------
(* ProtectedRoutes and the effects that push routes                        *)

Paths == {"/", "/login", "/sales"}

isAuthenticated(user) == user # Null /\ user.id # "user-0"

\* ProtectedRoutes without the check of the user on paths other than /login.
ProtectedRoutes_noUserCheck(loading, user, path) ==
    IF loading THEN "loading" ELSE "children"

\* What ProtectedRoutes returns.
ProtectedRoutes(loading, user, path) ==
    IF loading THEN "loading"
    ELSE IF (user = Null \/ user.id = "user-0") /\ path # "/login" THEN "nothing"
    ELSE "children"

\* LoginPage is mounted when the guard renders its children on /login.
loginPageMounted(loading, user, path) ==
    ProtectedRoutes(loading, user, path) = "children" /\ path = "/login"

\* The route in flight once the effects that follow a render have run: the
\* handler's own push (or the one already in flight), then LoginPage's effect,
\* then ProtectedRoutes' effect, each only when one of its dependencies changed.
afterEffects(user, loading, path, handlerPush) ==
    LET guardDeps == <<user, loading, path>> # <<currentUser, isLoading, pathname>>
        pageDeps  == \/ user # currentUser
                     \/ ~loginPageMounted(isLoading, currentUser, pathname)
        p2 == IF loginPageMounted(loading, user, path) /\ pageDeps
                 /\ isAuthenticated(user)
              THEN "/" ELSE handlerPush
    IN  IF guardDeps /\ ~loading /\ (user = Null \/ user.id = "user-0")
           /\ path # "/login"
        THEN "/login" ELSE p2

\* One commit of the auth state followed by the render and its effects.
commit(user, loading, path, handlerPush) ==
    /\ currentUser' = user
    /\ isLoading' = loading
    /\ pathname' = path
    /\ view' = ProtectedRoutes(loading, user, path)
    /\ pushed' = afterEffects(user, loading, path, handlerPush)

-----------------------------------------------------------------------------
(* Strings: the UTF-16 code units of every string the inventory uses       *)

codeUnits(s) ==
    CASE s = "Main Store" -> <<77, 97, 105, 110, 32, 83, 116, 111, 114, 101>>
      [] s = "Warehouse" -> <<87, 97, 114, 101, 104, 111, 117, 115, 101>>
      [] s = "outlet" -> <<111, 117, 116, 108, 101, 116>>
      [] s = "Gel" -> <<71, 101, 108>>
      [] s = "Wax" -> <<87, 97, 120>>
      [] s = "Tinte" -> <<84, 105, 110, 116, 101>>
      [] s = "101" -> <<49, 48, 49>>
      [] s = "102" -> <<49, 48, 50>>
      [] s = "103" -> <<49, 48, 51>>
      [] s = "gel" -> <<103, 101, 108>>
      [] s = "WAX" -> <<87, 65, 88>>
      [] s = "nada" -> <<110, 97, 100, 97>>
      [] s = "*" -> <<42>>
      [] s = "" -> <<>>
      [] s = "  " -> <<32, 32>>
      [] s = "null" -> <<110, 117, 108, 108>>
      [] s = "Loreal" -> <<76, 111, 114, 101, 97, 108>>
      [] s = "Revlon" -> <<82, 101, 118, 108, 111, 110>>
      [] s = "104" -> <<49, 48, 52>>
      [] s = "105" -> <<49, 48, 53>>
      [] s = "106" -> <<49, 48, 54>>
      [] s = "107" -> <<49, 48, 55>>
      [] s = "108" -> <<49, 48, 56>>
      [] s = "10" -> <<49, 48>>
      [] s = "ge" -> <<103, 101>>
      [] s = "GE" -> <<71, 69>>
      [] s = "loreal " -> <<108, 111, 114, 101, 97, 108, 32>>
      [] s = "Marca Desconocida" -> <<77, 97, 114, 99, 97, 32, 68, 101, 115, 99, 111, 110,
                                       111, 99, 105, 100, 97>>
      [] s = "Distribuidora" -> <<68, 105, 115, 116, 114, 105, 98, 117, 105, 100, 111, 114, 97>>

\* String.prototype.toLowerCase, on code units (the strings here are ASCII).
toLowerCase(s) ==
    LET u == codeUnits(s)
    IN  [i \in DOMAIN u |-> IF u[i] >= 65 /\ u[i] <= 90 THEN u[i] + 32 ELSE u[i]]

\* The comparison Array.prototype.sort uses by default: code units, left to right.
RECURSIVE unitsLess(_, _)
unitsLess(u, v) ==
    IF v = <<>> THEN FALSE
    ELSE IF u = <<>> THEN TRUE
    ELSE IF Head(u) # Head(v) THEN Head(u) < Head(v)
    ELSE unitsLess(Tail(u), Tail(v))

stringLess(a, b) == unitsLess(codeUnits(a), codeUnits(b))

insertSorted(x, sortedSeq) ==
    LET before == SelectSeq(sortedSeq, LAMBDA y : ~stringLess(x, y))
        after  == SelectSeq(sortedSeq, LAMBDA y : stringLess(x, y))
    IN  before \o <<x>> \o after

\* Array.prototype.sort() without a comparator.
RECURSIVE sort(_)
sort(seq) == IF seq = <<>> THEN <<>> ELSE insertSorted(Head(seq), sort(Tail(seq)))

\* String.prototype.toLowerCase on code units
lowerUnits(u) ==
    [i \in DOMAIN u |-> IF u[i] >= 65 /\ u[i] <= 90 THEN u[i] + 32 ELSE u[i]]

isSpace(unit) == unit \in {9, 10, 13, 32}

RECURSIVE trimStart(_)
trimStart(u) == IF u # <<>> /\ isSpace(Head(u)) THEN trimStart(Tail(u)) ELSE u

RECURSIVE trimEnd(_)
trimEnd(u) ==
    IF u # <<>> /\ isSpace(u[Len(u)]) THEN trimEnd(SubSeq(u, 1, Len(u) - 1)) ELSE u

\* String.prototype.trim, giving the code units of the result
trim(s) == trimEnd(trimStart(codeUnits(s)))

\* String.prototype.includes, on code units
stringIncludes(u, v) ==
    \E k \in 0..(Len(u) - Len(v)) : SubSeq(u, k + 1, k + Len(v)) = v

\* Array.prototype.slice(0, n)
slice(seq, n) == SubSeq(seq, 1, IF Len(seq) < n THEN Len(seq) ELSE n)

\* a % b of JavaScript for b > 0: the sign of the result is that of a
jsRem(a, b) == IF a >= 0 THEN a % b ELSE -((-a) % b)

\* Array.prototype.includes
includes(seq, x) == \E i \in DOMAIN seq : seq[i] = x

-----------------------------------------------------------------------------
(* useInventory                                                            *)

NoProduct == [barcode |-> "null", name |-> "null", brand |-> "null",
              quantity |-> 0, price |-> 0]

product(barcode, name, brand, quantity, price) ==
    [barcode |-> barcode, name |-> name, brand |-> brand,
     quantity |-> quantity, price |-> price]

\* Answers of get_inventory.php: objects keyed by POS name, each keyed by brand,
\* in the order of their keys; the empty object is also what a failed fetch leaves.
InventoryResponses ==
    { <<>>,
      << [pos |-> "Warehouse", brands |->
            << [brand |-> "Loreal", products |->
                  << product("101", "Gel", "Loreal", 3, 5),
                     product("103", "Tinte", "Loreal", 1, 9) >>] >>],
         [pos |-> "Main Store", brands |->
            << [brand |-> "Loreal", products |->
                  << product("101", "Gel", "Loreal", 2, 5) >>],
               [brand |-> "Revlon", products |->
                  << product("102", "Wax", "Revlon", 1, 7) >>] >>] >>,
      << [pos |-> "outlet", brands |->
            << [brand |-> "Revlon", products |->
                  << product("102", "Wax", "Revlon", 2, 7) >>] >>],
         [pos |-> "Warehouse", brands |->
            << [brand |-> "Revlon", products |->
                  << product("102", "Wax", "Revlon", 0, 7),
                     product("103", "Tinte", "Revlon", 2, 9) >>] >>] >>,
      << [pos |-> "outlet", brands |->
            << [brand |-> "Loreal", products |->
                  << product("101", "Gel", "Loreal", 1, 5) >>] >>],
         [pos |-> "Main Store", brands |-> <<>>] >> }

\* Object.keys(inventory)
keys(inv) == [i \in DOMAIN inv |-> inv[i].pos]

\* inventory[pos], with <<>> for undefined
brandsOf(inv, pos) ==
    IF includes(keys(inv), pos)
    THEN inv[CHOOSE i \in DOMAIN inv : inv[i].pos = pos].brands
    ELSE <<>>

\* getPointsOfSale: Object.keys(inventory).sort()
getPointsOfSale(inv) == sort(keys(inv))

matches(p, identifier) ==
    \/ p.barcode = identifier
    \/ toLowerCase(p.name) = toLowerCase(identifier)

\* products.find(...) over the brands of a POS, in order
RECURSIVE findInBrands(_, _)
findInBrands(brands, identifier) ==
    IF brands = <<>> THEN NoProduct
    ELSE LET products == Head(brands).products
             hits == {i \in DOMAIN products : matches(products[i], identifier)}
         IN  IF hits # {}
             THEN products[CHOOSE i \in hits : \A j \in hits : i <= j]
             ELSE findInBrands(Tail(brands), identifier)

\* getProductDetailsInPos(pos, identifier)
getProductDetailsInPos(inv, pos, identifier) ==
    IF ~includes(keys(inv), pos) THEN NoProduct
    ELSE findInBrands(brandsOf(inv, pos), identifier)

\* Object.values(posInventory).flat()
RECURSIVE flatProducts(_)
flatProducts(brands) ==
    IF brands = <<>> THEN <<>>
    ELSE Head(brands).products \o flatProducts(Tail(brands))

\* if (!allInventoryProducts.has(product.barcode)) allInventoryProducts.set(...)
RECURSIVE firstPerBarcode(_, _)
firstPerBarcode(products, kept) ==
    IF products = <<>> THEN kept
    ELSE IF \E i \in DOMAIN kept : kept[i].barcode = Head(products).barcode
    THEN firstPerBarcode(Tail(products), kept)
    ELSE firstPerBarcode(Tail(products), Append(kept, Head(products)))

-----------------------------------------------------------------------------
(* InventoryContext                                                        *)

\* getPointsOfSaleForUser()
getPointsOfSaleForUser(user, inv) ==
    LET allPos == getPointsOfSale(inv)
    IN  IF user = Null \/ Len(user.allowedPOS) = 0 THEN <<>>
        ELSE IF includes(user.allowedPOS, "*") THEN allPos
        ELSE SelectSeq(allPos, LAMBDA pos : includes(user.allowedPOS, pos))

NoDetails == [pos |-> "null", product |-> NoProduct]

\* the loop of getProductDetailsForUser over the accessible POS
RECURSIVE firstDetails(_, _, _)
firstDetails(inv, posList, identifier) ==
    IF posList = <<>> THEN NoDetails
    ELSE LET found == getProductDetailsInPos(inv, Head(posList), identifier)
         IN  IF found # NoProduct
             THEN [pos |-> Head(posList), product |-> found]
             ELSE firstDetails(inv, Tail(posList), identifier)

\* getProductDetailsForUser that searches every POS, whatever the user may access.
getProductDetailsForUser_anywhere(user, inv, identifier) ==
    firstDetails(inv, getPointsOfSale(inv), identifier)

\* getProductDetailsForUser(identifier)
getProductDetailsForUser(user, inv, identifier) ==
    IF user = Null \/ Len(user.allowedPOS) = 0 THEN NoDetails
    ELSE LET accessiblePOS == IF includes(user.allowedPOS, "*")
                              THEN getPointsOfSale(inv)
                              ELSE user.allowedPOS
         IN  firstDetails(inv, accessiblePOS, identifier)

Identifiers == {"101", "103", "gel", "WAX", "Tinte", "nada"}

NotCalled == [called |-> FALSE, identifier |-> "", value |-> NoDetails]

CallGetPointsOfSaleForUser ==
    /\ posResult' = [called |-> TRUE,
                     value |-> getPointsOfSaleForUser(currentUser, inventory)]
    /\ UNCHANGED <<authVars, inventory, isInventoryLoaded, lookup, pageVars, otherVars>>

CallGetProductDetailsForUser(identifier) ==
    /\ lookup' = [called |-> TRUE, identifier |-> identifier,
                  value |-> getProductDetailsForUser(currentUser, inventory, identifier)]
    /\ UNCHANGED <<authVars, inventory, isInventoryLoaded, posResult, pageVars, otherVars>>

-----------------------------------------------------------------------------
(* Calls of the AuthContext API and the events around it                   *)

Usernames == {"", "admin", "tienda", "x"}
Passwords == {"", "adminpassword", Undefined}

NoCall == [op |-> "none", username |-> "", password |-> "", ok |-> FALSE]

\* login(username, password): what it does to the provider, whoever calls it.
login(username, password, handlerPush) ==
    LET user == userToLogin(username, password)
    IN  /\ IF user # Null
           THEN /\ Len(timers) < MaxTimers
                /\ timers' = Append(timers, [kind |-> "login", user |-> user])
                /\ commit(currentUser, TRUE, pathname, handlerPush)
           ELSE /\ timers' = timers
                /\ commit(noUser, isLoading, pathname, handlerPush)
        /\ lastCall' = [op |-> "login", username |-> username,
                        password |-> password, ok |-> user # Null]
        /\ failedOpen' = (user = Null)
        /\ logoutOpen' = (logoutOpen /\ user = Null)

\* Any caller of login (UserSwitcher passes a user id and no password).
Login(username, password) ==
    /\ login(username, password, pushed)
    /\ UNCHANGED <<invVars, otherVars, pageVars>>

\* LoginPage.handleSubmit: both inputs are `required`, so the browser submits
\* the form only with both filled in.
HandleSubmit(username, password) ==
    /\ loginPageMounted(isLoading, currentUser, pathname)
    /\ username # "" /\ password # "" /\ password # Undefined
    /\ login(username, password,
             IF loginReturns(username, password) THEN "/" ELSE pushed)
    /\ UNCHANGED <<invVars, otherVars, pageVars>>

\* logout()
Logout ==
    /\ Len(timers) < MaxTimers
    /\ timers' = Append(timers, [kind |-> "logout", user |-> noUser])
    /\ commit(currentUser, TRUE, pathname, pushed)
    /\ lastCall' = [op |-> "logout", username |-> "", password |-> "", ok |-> TRUE]
    /\ logoutOpen' = TRUE
    /\ UNCHANGED <<failedOpen, invVars, otherVars, pageVars>>

\* The oldest pending timeout fires (all have the same 50 ms delay).
FireTimer ==
    /\ timers # <<>>
    /\ LET cb == timerCallback(Head(timers))
       IN  commit(cb.currentUser, cb.isLoading, pathname,
                  IF cb.push # NoPush THEN cb.push ELSE pushed)
    /\ timers' = Tail(timers)
    /\ UNCHANGED <<lastCall, failedOpen, logoutOpen, invVars, otherVars, pageVars>>

\* The router applies the navigation in flight.
RouteChange ==
    /\ pushed # NoPush
    /\ commit(currentUser, isLoading, pushed, NoPush)
    /\ UNCHANGED <<timers, lastCall, failedOpen, logoutOpen, invVars, otherVars, pageVars>>

\* A click on a Header link: the logo, a navigation item (authenticated users)
\* or "Iniciar Sesion" (everyone else). The Header is a child of the guard.
Navigate(path) ==
    /\ view = "children"
    /\ \/ path = "/"
       \/ path = "/login" /\ ~isAuthenticated(currentUser)
       \/ path \notin {"/", "/login"} /\ isAuthenticated(currentUser)
    /\ pushed' = path
    /\ UNCHANGED <<currentUser, isLoading, timers, pathname, view,
                   lastCall, failedOpen, logoutOpen, invVars, otherVars, pageVars>>

\* State of the providers right after they mount on a page load of `path`.
mounted(path) ==
    /\ currentUser = Null
    /\ isLoading = TRUE
    /\ timers = <<[kind |-> "mount", user |-> noUser]>>
    /\ pathname = path
    /\ pushed = NoPush
    /\ view = ProtectedRoutes(TRUE, Null, path)
    /\ lastCall = NoCall
    /\ failedOpen = FALSE
    /\ logoutOpen = FALSE

\* The visitor loads a URL: the whole application mounts again.
Reload(path) ==
    /\ currentUser' = Null
    /\ isLoading' = TRUE
    /\ timers' = <<[kind |-> "mount", user |-> noUser]>>
    /\ pathname' = path
    /\ pushed' = NoPush
    /\ view' = ProtectedRoutes(TRUE, Null, path)
    /\ lastCall' = NoCall
    /\ failedOpen' = FALSE
    /\ logoutOpen' = FALSE
    /\ UNCHANGED <<invVars, otherVars, pageVars>>

\* Dates are days counted from 1, in a calendar of MonthsInYear months of
\* DaysInMonth days; the time of day is left out, startOfMonth being the first
\* instant of its day and endOfMonth the last instant of its day.
InvalidDate == 0

isValid(date) == date # InvalidDate

dayOfMonth(date) == ((date - 1) % DaysInMonth) + 1

monthOfYear(date) == (((date - 1) \div DaysInMonth) % MonthsInYear) + 1

startOfMonth(date) == ((date - 1) \div DaysInMonth) * DaysInMonth + 1

endOfMonth(date) == startOfMonth(date) + DaysInMonth - 1

\* format(date, 'dd/MM'): the day of the month and the month, without the year
format(date) == <<dayOfMonth(date), monthOfYear(date)>>

eachDayOfInterval(start, end) == [i \in 1..(end - start + 1) |-> start + i - 1]

\* DesgloseVentasPage as its useState calls leave it, mounted on the day `now`.
desgloseInitial(now) ==
    [selectedMonthDateRange |-> [from |-> startOfMonth(now), to |-> endOfMonth(now)],
     allSalesData |-> <<>>,
     allWholesaleSalesData |-> <<>>,
     productSalesMatrixByBrand |-> <<>>,
     brandsForAccordion |-> <<>>]

\* localStorage.getItem(key) of a key that was never set
Absent == [present |-> FALSE, sales |-> <<>>]

\* an entry holding JSON.stringify(sales); dates are counted in days
stored(sales) == [present |-> TRUE, sales |-> sales]

\* raw ? JSON.parse(raw) : []
parse(raw) == IF raw.present THEN raw.sales ELSE <<>>

\* CajaPage before its effect has run: the three useState(0), and today = 0
\* for "not yet computed".
cajaInitial ==
    [today |-> 0, dailyCashIncome |-> 0, dailyCardIncome |-> 0,
     dailyTransferIncome |-> 0]

emptyStorage == [salesHistory |-> Absent, wholesaleSalesHistory |-> Absent]

idleStorage ==
    /\ localStorage = emptyStorage
    /\ caja = cajaInitial
    /\ allSalesData = <<>>
    /\ allWholesaleSalesData = <<>>

\* The suggestion state of a page as its useState and useRef calls leave it;
\* currentFocusIndex counts the lines from 1, with 0 for null; timerFocus is
\* the line the timer set after a barcode was read will focus, 0 without one.
noSuggestions ==
    [suggestions |-> <<>>, activeSuggestionIndex |-> -1, currentFocusIndex |-> 0,
     isSuggestionsOpen |-> FALSE, processingBarcode |-> FALSE, timerFocus |-> 0]

\* InventoryTable as its useState calls leave it, for the tab `pos` ("" while
\* no tab is mounted); debounced is the term debouncedSearch waits to run
\* with, in a one-element sequence.
inventoryTableInitial(pos) ==
    [pointOfSale |-> pos, searchTerm |-> "", filteredData |-> <<>>,
     suggestions |-> <<>>, isSuggestionsOpen |-> FALSE,
     activeSuggestionIndex |-> -1, debounced |-> <<>>]

idleSuggest ==
    /\ inventoryTable = inventoryTableInitial("")
    /\ salesSuggest = noSuggestions
    /\ supplierSuggest = noSuggestions

idleOther == idleStorage /\ desglose = desgloseInitial(1) /\ idleSuggest

idlePages ==
    /\ form = [pointOfSale |-> "", paymentMethod |-> "cash", items |-> <<>>]
    /\ salesHistory = <<>>
    /\ supplierForm = [supplierName |-> "", pointOfSale |-> "", products |-> <<>>]
    /\ supplierHistory = <<>>
    /\ request = [url |-> "none"]
    /\ toast = "none"

idleInventory ==
    /\ inventory = <<>>
    /\ isInventoryLoaded = FALSE
    /\ posResult = [called |-> FALSE, value |-> <<>>]
    /\ lookup = NotCalled

InitAuth ==
    (\E path \in Paths : mounted(path)) /\ idleInventory /\ idlePages /\ idleOther

NextAuth ==
    \/ \E u \in Usernames, p \in Passwords : Login(u, p)
    \/ \E u \in Usernames, p \in Passwords : HandleSubmit(u, p)
    \/ Logout
    \/ FireTimer
    \/ RouteChange
    \/ \E path \in Paths : Navigate(path)
    \/ \E path \in Paths : Reload(path)

SpecAuth == InitAuth /\ [][NextAuth]_vars

\* Timeouts that are due do fire.
FairSpecAuth == SpecAuth /\ WF_vars(FireTimer)

-----------------------------------------------------------------------------
(* Claims about authentication and the route guard                         *)

\* C5: ProtectedRoutes renders its children only when isLoading is false and
\* either currentUser is an authenticated user (not null, id other than
\* 'user-0') or the pathname is '/login'.
C5_ChildrenOnlyWhenAllowed ==
    view = "children" =>
        /\ ~isLoading
        /\ \/ currentUser # Null /\ currentUser.id # "user-0"
           \/ pathname = "/login"

\* An authenticated user sees a page other than /login.
C5_Witness ==
    /\ view = "children"
    /\ pathname = "/sales"
    /\ currentUser.id = "admin-user"

\* The most recent login / logout call is login(username, password), and it
\* returned true.
lastCallIsLogin(username, password) ==
    lastCall = [op |-> "login", username |-> username,
                password |-> password, ok |-> TRUE]

\* C6: after login(username, password) returned true, and with no later login
\* or logout call, eventually currentUser is the user with that username and
\* password and isLoading is false.
C6_LoginEventuallyInstallsUser ==
    \A username \in Usernames, password \in Passwords :
        lastCallIsLogin(username, password) ~>
            \/ ~lastCallIsLogin(username, password)
            \/ /\ currentUser.username = username
               /\ currentUser.password = password
               /\ ~isLoading

\* The login of admin was the last call and its timeout has fired.
C6_Witness ==
    /\ lastCallIsLogin("admin", "adminpassword")
    /\ timers = <<>>
    /\ currentUser.id = "admin-user"
    /\ ~isLoading

\* C7: whenever login returns true, the user it installs as currentUser is an
\* authenticated account and never the 'user-0' placeholder.
C7_LoginTrueInstallsAccount ==
    \A i \in DOMAIN timers :
        timers[i].kind = "login" => isAuthenticated(timers[i].user)

\* C8: after a login call that returned false, and with no later login call,
\* once every pending timer has fired currentUser is the 'user-0' placeholder.
C8_FailedLoginLeavesNobody ==
    (failedOpen /\ timers = <<>>) => currentUser.id = "user-0"

\* C9: isLoading is never false while a timer started by the provider mount,
\* by a successful login or by a logout is still pending.
C9_LoadingWhileTimerPending ==
    timers # <<>> => isLoading

\* logout() was called, no successful login followed, and a timeout started
\* by logout is pending.
logoutInProgress ==
    logoutOpen /\ \E i \in DOMAIN timers : timers[i].kind = "logout"

\* C10: after logout() was called, and with no later successful login,
\* eventually currentUser is the 'user-0' user, isLoading is false and the
\* router has been sent to '/login'.
C10_LogoutEventuallySettles ==
    logoutInProgress ~>
        \/ ~logoutOpen
        \/ /\ currentUser.id = "user-0"
           /\ ~isLoading
           /\ pushed = "/login"

\* The timeout of a logout issued by a logged-in administrator has fired.
C10_Witness ==
    /\ logoutOpen
    /\ lastCall.op = "logout"
    /\ timers = <<>>
    /\ currentUser.id = "user-0"
    /\ ~isLoading
    /\ pushed = "/login"
    /\ pathname = "/sales"

-----------------------------------------------------------------------------
(* The inventory context on its own: the functions it hands to the pages,  *)
(* applied in every state the providers can be in.                         *)

\* The auth state once `user` has been installed and the page "/" is shown
\* (Null: the providers have just mounted).
authSettled(user) ==
    IF user = Null THEN mounted("/")
    ELSE /\ currentUser = user
         /\ isLoading = FALSE
         /\ timers = <<>>
         /\ pathname = (IF isAuthenticated(user) THEN "/" ELSE "/login")
         /\ pushed = NoPush
         /\ view = "children"
         /\ lastCall = NoCall
         /\ failedOpen = FALSE
         /\ logoutOpen = FALSE

\* The inventory state after the fetch of the mount effect has ended.
inventoryLoaded(inv) ==
    /\ inventory = inv
    /\ isInventoryLoaded = TRUE
    /\ posResult = [called |-> FALSE, value |-> <<>>]
    /\ lookup = NotCalled

InitInv ==
    /\ \E user \in Users \cup {Null} : authSettled(user)
    /\ \E inv \in InventoryResponses : inventoryLoaded(inv)
    /\ idlePages
    /\ idleOther

NextInv ==
    \/ CallGetPointsOfSaleForUser
    \/ \E identifier \in Identifiers : CallGetProductDetailsForUser(identifier)

SpecInv == InitInv /\ [][NextInv]_vars

-----------------------------------------------------------------------------
(* Claims about the inventory context                                      *)

toSet(seq) == {seq[i] : i \in DOMAIN seq}

\* The user may access `pos`: it is listed in allowedPOS, or allowedPOS has '*'.
mayAccess(user, pos) ==
    /\ user # Null
    /\ \/ "*" \in toSet(user.allowedPOS)
       \/ pos \in toSet(user.allowedPOS)

\* `p` is a product of the inventory in `pos`.
inPos(p, pos) ==
    \E i \in DOMAIN inventory :
        /\ inventory[i].pos = pos
        /\ \E b \in DOMAIN inventory[i].brands :
               p \in toSet(inventory[i].brands[b].products)

\* C3: getProductDetailsForUser returns null or a product found in a point of
\* sale the current user may access; it returns null when there is no user or
\* allowedPOS is empty, and never a product of a point of sale outside the
\* user's permissions.
C3_DetailsOnlyFromAccessiblePOS ==
    lookup.called =>
        /\ (currentUser = Null \/ currentUser.allowedPOS = <<>>)
               => lookup.value = NoDetails
        /\ lookup.value # NoDetails =>
               /\ mayAccess(currentUser, lookup.value.pos)
               /\ inPos(lookup.value.product, lookup.value.pos)
               /\ matches(lookup.value.product, lookup.identifier)

\* The Main Store user asked for a product that only the Warehouse holds.
C3_Witness ==
    /\ lookup.called
    /\ currentUser.id = "mainstore-user"
    /\ lookup.identifier = "Tinte"
    /\ \E p \in {q \in [barcode : {"103"}, name : {"Tinte"}, brand : {"Loreal"},
                      quantity : {1}, price : {9}] : TRUE} : inPos(p, "Warehouse")
    /\ lookup.value = NoDetails

\* a comes before b in the alphabet, whatever the case of their letters
alphabeticallyBefore(a, b) == unitsLess(toLowerCase(a), toLowerCase(b))

\* The parts of C4 about which names are returned.
C4_ReturnsAccessibleNames ==
    posResult.called =>
        LET got == toSet(posResult.value)
            names == toSet(keys(inventory))
            allowed == IF currentUser = Null THEN {}
                       ELSE toSet(currentUser.allowedPOS)
        IN  /\ allowed = {} => posResult.value = <<>>
            /\ "*" \in allowed => got = names
            /\ (allowed # {} /\ "*" \notin allowed) => got = names \cap allowed
            /\ got \subseteq names
            /\ Len(posResult.value) = Cardinality(got)

\* C4: getPointsOfSaleForUser returns the empty list without a user or with an
\* empty allowedPOS, every POS of the inventory with '*', otherwise exactly the
\* inventory POS names in allowedPOS; the result is a subset of the inventory's
\* POS names in alphabetical order.
C4_PointsOfSaleForUser ==
    /\ C4_ReturnsAccessibleNames
    /\ posResult.called =>
           \A i, j \in DOMAIN posResult.value :
               i < j => alphabeticallyBefore(posResult.value[i], posResult.value[j])

-----------------------------------------------------------------------------
(* SalesLogPage                                                            *)

emptyItem ==
    [identifier |-> "", barcode |-> "", productName |-> "", brandName |-> "",
     quantity |-> 1, price |-> 0, isKnownProduct |-> FALSE, stock |-> 0]

\* s.trim() === ""
trimsToEmpty(s) == \A i \in DOMAIN codeUnits(s) : codeUnits(s)[i] \in {9, 10, 13, 32}

\* z.string().min(1)
nonEmpty(s) == Len(codeUnits(s)) >= 1

saleItemSchema(item) ==
    /\ nonEmpty(item.barcode)
    /\ nonEmpty(item.productName)
    /\ nonEmpty(item.brandName)
    /\ item.quantity >= 1
    /\ item.price >= 0

salesFormSchema(data) ==
    /\ nonEmpty(data.pointOfSale)
    /\ Len(data.items) >= 1
    /\ \A i \in DOMAIN data.items : saleItemSchema(data.items[i])
    /\ \A i \in DOMAIN data.items :
           /\ data.items[i].barcode # "" /\ ~trimsToEmpty(data.items[i].barcode)
           /\ data.items[i].productName # ""
           /\ ~trimsToEmpty(data.items[i].productName)
           /\ data.items[i].quantity > 0
    /\ \A i \in DOMAIN data.items :
           data.items[i].isKnownProduct =>
               data.items[i].quantity <= data.items[i].stock

accessiblePOS == getPointsOfSaleForUser(currentUser, inventory)
canUserSell == Len(accessiblePOS) > 0

RECURSIVE sumSale(_)
sumSale(items) ==
    IF items = <<>> THEN 0
    ELSE Head(items).price * Head(items).quantity + sumSale(Tail(items))

\* calculateTotalSale(), over the values of the form
calculateTotalSale(data) == sumSale(data.items)

itemsToProcess(data) ==
    SelectSeq(data.items, LAMBDA item :
        /\ item.isKnownProduct
        /\ item.barcode # "" /\ ~trimsToEmpty(item.barcode)
        /\ item.productName # "" /\ ~trimsToEmpty(item.productName)
        /\ item.quantity > 0)

\* the test of one line against the stock of the selected POS
stockIsShort(data, item) ==
    LET productInStock == getProductDetailsInPos(inventory, data.pointOfSale, item.barcode)
    IN  productInStock = NoProduct \/ productInStock.quantity < item.quantity

salePayload(data) ==
    [url |-> "/api/php/record_sale.php",
     pointOfSale |-> data.pointOfSale,
     paymentMethod |-> data.paymentMethod,
     userId |-> currentUser.id,
     userName |-> currentUser.name,
     items |-> [i \in DOMAIN itemsToProcess(data) |->
                  [barcode |-> itemsToProcess(data)[i].barcode,
                   productName |-> itemsToProcess(data)[i].productName,
                   brandName |-> itemsToProcess(data)[i].brandName,
                   quantity |-> itemsToProcess(data)[i].quantity,
                   price |-> itemsToProcess(data)[i].price]],
     totalAmount |-> calculateTotalSale(data)]

\* onSubmit without the check of the selected point of sale.
salesOnSubmitGate_anyPOS(data) ==
    IF currentUser = Null \/ ~canUserSell
    THEN "Acceso Denegado"
    ELSE IF itemsToProcess(data) = <<>> THEN "Venta Vacia"
    ELSE IF \E i \in DOMAIN itemsToProcess(data) :
                stockIsShort(data, itemsToProcess(data)[i])
    THEN "Stock Insuficiente"
    ELSE "fetch"

\* onSubmit up to the request: the toast of the early return taken, or "fetch".
salesOnSubmitGate(data) ==
    IF currentUser = Null \/ ~canUserSell \/ ~includes(accessiblePOS, data.pointOfSale)
    THEN "Acceso Denegado"
    ELSE IF itemsToProcess(data) = <<>> THEN "Venta Vacia"
    ELSE IF \E i \in DOMAIN itemsToProcess(data) :
                stockIsShort(data, itemsToProcess(data)[i])
    THEN "Stock Insuficiente"
    ELSE "fetch"

\* resetSaleFormAndFocus: what it does to the suggestion list
resetSaleFormAndFocus(sg) ==
    [sg EXCEPT !.suggestions = <<>>, !.activeSuggestionIndex = -1,
               !.currentFocusIndex = 0]

\* form.handleSubmit(onSubmit): the schema, onSubmit, and the answer of
\* record_sale.php (ok or not, with the dateTime the server gave the sale).
salesHandleSubmit(responseOk, dateTime) ==
    /\ salesSuggest' =
           IF salesFormSchema(form) /\ salesOnSubmitGate(form) = "fetch" /\ responseOk
           THEN resetSaleFormAndFocus(salesSuggest)
           ELSE salesSuggest
    /\ IF ~salesFormSchema(form)
       THEN UNCHANGED pageVars
       ELSE IF salesOnSubmitGate(form) # "fetch"
       THEN /\ toast' = salesOnSubmitGate(form)
            /\ UNCHANGED <<form, salesHistory, supplierForm, supplierHistory, request>>
       ELSE /\ request' = salePayload(form)
            /\ IF responseOk
               THEN /\ Len(salesHistory) < MaxHistory
                    /\ salesHistory' =
                           <<[dateTime |-> dateTime,
                              pointOfSale |-> form.pointOfSale,
                              paymentMethod |-> form.paymentMethod,
                              userId |-> currentUser.id,
                              items |-> salePayload(form).items,
                              totalAmount |-> salePayload(form).totalAmount]>>
                           \o salesHistory
                    /\ toast' = "Venta Registrada"
                    /\ form' = [pointOfSale |-> form.pointOfSale,
                                paymentMethod |-> form.paymentMethod,
                                items |-> <<emptyItem>>]
               ELSE /\ toast' = "Error al Registrar Venta"
                    /\ UNCHANGED <<form, salesHistory>>
            /\ UNCHANGED <<supplierForm, supplierHistory>>

\* The submit button of the sales form is enabled.
salesSubmitEnabled ==
    /\ salesFormSchema(form)
    /\ isInventoryLoaded
    /\ canUserSell
    /\ \E i \in DOMAIN form.items :
           /\ form.items[i].isKnownProduct
           /\ form.items[i].barcode # ""
           /\ form.items[i].quantity > 0

SubmitSale(responseOk, dateTime) ==
    /\ salesSubmitEnabled
    /\ salesHandleSubmit(responseOk, dateTime)
    /\ UNCHANGED <<authVars, invVars, salesOtherVars>>

\* useFieldArray update(index, value)
updateItem(index, value) ==
    [form EXCEPT !.items = [form.items EXCEPT ![index] = value]]

knownItem(productInfo, quantity) ==
    [identifier |-> productInfo.name, barcode |-> productInfo.barcode,
     productName |-> productInfo.name, brandName |-> productInfo.brand,
     quantity |-> quantity, price |-> productInfo.price,
     isKnownProduct |-> TRUE, stock |-> productInfo.quantity]

\* x || 1
orOne(x) == IF x = 0 THEN 1 ELSE x

\* handleIdentifierChange(index, identifierValue): what it does to the form
handleIdentifierChange(index, identifierValue) ==
    LET typed == updateItem(index, [form.items[index] EXCEPT !.identifier = identifierValue])
        formItemValues == typed.items[index]
        targetPos == form.pointOfSale
        productInfo == getProductDetailsInPos(inventory, targetPos, identifierValue)
    IN  IF trimsToEmpty(identifierValue) \/ targetPos = "" \/ ~isInventoryLoaded
           \/ currentUser = Null \/ isLoading
        THEN IF trimsToEmpty(identifierValue) /\ formItemValues.isKnownProduct
             THEN updateItem(index, [emptyItem EXCEPT
                                        !.quantity = orOne(formItemValues.quantity)])
             ELSE typed
        ELSE IF productInfo # NoProduct /\ identifierValue = productInfo.barcode
        THEN LET updated == updateItem(index, knownItem(productInfo, 1))
             IN  IF index = Len(form.items)
                 THEN [updated EXCEPT !.items = Append(updated.items, emptyItem)]
                 ELSE updated
        ELSE IF productInfo # NoProduct
        THEN updateItem(index, knownItem(productInfo, orOne(formItemValues.quantity)))
        ELSE IF /\ formItemValues.isKnownProduct
                /\ toLowerCase(identifierValue) # toLowerCase(formItemValues.productName)
                /\ identifierValue # formItemValues.barcode
        THEN updateItem(index, [formItemValues EXCEPT
                 !.barcode = "", !.productName = "", !.brandName = "", !.price = 0,
                 !.isKnownProduct = FALSE, !.stock = 0])
        ELSE typed

\* slice(0, 7), and the default limit of generateSuggestions
SuggestionLimit == 7

\* The products handleIdentifierChange finds for what was typed in line
\* `index` of the form f.
productsInPos(f, index, identifierValue) ==
    LET lowerIdentifier == toLowerCase(identifierValue)
        formItemValues == f.items[index]
        found == SelectSeq(flatProducts(brandsOf(inventory, f.pointOfSale)),
                     LAMBDA p : \/ stringIncludes(toLowerCase(p.name), lowerIdentifier)
                                \/ stringIncludes(codeUnits(p.barcode), lowerIdentifier))
        distinct == firstPerBarcode(found, <<>>)
    IN  IF formItemValues.isKnownProduct /\ formItemValues.barcode # ""
        THEN SelectSeq(distinct, LAMBDA p : p.barcode # formItemValues.barcode)
        ELSE distinct

\* handleIdentifierChange(index, identifierValue): what it does to the
\* suggestion list sg when it runs on the form f, up to the focus it moves.
identifierSuggest(f, sg, index, identifierValue) ==
    LET formItemValues == f.items[index]
        targetPos == f.pointOfSale
        productInfo == getProductDetailsInPos(inventory, targetPos, identifierValue)
        closed == [sg EXCEPT !.currentFocusIndex = index, !.suggestions = <<>>,
                             !.activeSuggestionIndex = -1,
                             !.isSuggestionsOpen = FALSE]
        newSuggestions ==
            slice(productsInPos(f, index, identifierValue), SuggestionLimit)
    IN  IF trimsToEmpty(identifierValue) \/ targetPos = "" \/ ~isInventoryLoaded
           \/ currentUser = Null \/ isLoading
        THEN closed
        ELSE IF productInfo # NoProduct /\ identifierValue = productInfo.barcode
        THEN [closed EXCEPT !.processingBarcode = TRUE,
                            !.timerFocus = IF index = Len(f.items) THEN index ELSE @]
        ELSE IF productInfo # NoProduct
        THEN closed
        ELSE [closed EXCEPT
                 !.suggestions = newSuggestions,
                 !.isSuggestionsOpen =
                     /\ Len(newSuggestions) > 0
                     /\ trim(identifierValue) # <<>>
                     /\ ~formItemValues.isKnownProduct]

\* onFocus of the identifier input of line `index` calls handleIdentifierChange
callsHandler(f, index) ==
    LET currentIdVal == f.items[index].identifier
        isProdKnown == f.items[index].isKnownProduct
        knownProduct ==
            getProductDetailsInPos(inventory, f.pointOfSale, f.items[index].barcode)
    IN  \/ currentIdVal # "" /\ ~isProdKnown
        \/ /\ currentIdVal # "" /\ isProdKnown
           /\ \/ /\ knownProduct # NoProduct
                 /\ toLowerCase(currentIdVal) # toLowerCase(knownProduct.name)
                 /\ currentIdVal # knownProduct.barcode
              \/ knownProduct = NoProduct

\* onFocus of the identifier input of line `index`: what it does to the
\* suggestion list
onFocusSuggest(f, sg, index) ==
    IF callsHandler(f, index)
    THEN identifierSuggest(f, sg, index, f.items[index].identifier)
    ELSE [sg EXCEPT !.currentFocusIndex = index, !.isSuggestionsOpen = FALSE,
                    !.suggestions = <<>>]

\* handleIdentifierChange read a barcode in a line that is not the last one:
\* it focuses the next line, whose onFocus runs, and ends the reading.
scannedInside(f, index, identifierValue) ==
    LET productInfo == getProductDetailsInPos(inventory, f.pointOfSale, identifierValue)
    IN  /\ ~(trimsToEmpty(identifierValue) \/ f.pointOfSale = "" \/ ~isInventoryLoaded
             \/ currentUser = Null \/ isLoading)
        /\ productInfo # NoProduct /\ identifierValue = productInfo.barcode
        /\ index < Len(f.items)

\* The effect that depends on fields.length runs again when a line is added
\* or removed: setSuggestions([]) and setActiveSuggestionIndex(-1).
fieldsEffect(sg) == [sg EXCEPT !.suggestions = <<>>, !.activeSuggestionIndex = -1]

\* handleIdentifierChange(index, identifierValue): what it does to the
\* suggestion list, the focus it moves included (the line it moves to, not
\* being resolved, holds no exact barcode or name, so the form stays as
\* handleIdentifierChange left it).
suggestAfterChange(index, identifierValue) ==
    LET typed == updateItem(index, [form.items[index] EXCEPT
                                       !.identifier = identifierValue])
        sg == identifierSuggest(typed, salesSuggest, index, identifierValue)
    IN  IF scannedInside(typed, index, identifierValue)
        THEN [onFocusSuggest(handleIdentifierChange(index, identifierValue), sg,
                             index + 1)
                 EXCEPT !.currentFocusIndex = index + 1, !.processingBarcode = FALSE]
        ELSE sg

\* the open prop of the Popover of line `index`: showSuggestionsForThisItem
showSuggestionsForThisItem(index) ==
    /\ salesSuggest.currentFocusIndex = index
    /\ salesSuggest.isSuggestionsOpen
    /\ Len(salesSuggest.suggestions) > 0
    /\ form.pointOfSale # ""
    /\ form.items[index].identifier # ""
    /\ ~form.items[index].isKnownProduct

SaleIdentifiers == {"", "101", "gel", "nada"}

HandleIdentifierChange(index, identifierValue) ==
    /\ canUserSell /\ form.pointOfSale # ""
    /\ index \in DOMAIN form.items
    /\ Len(handleIdentifierChange(index, identifierValue).items) <= MaxItems
    /\ form' = handleIdentifierChange(index, identifierValue)
    /\ salesSuggest' = suggestAfterChange(index, identifierValue)
    /\ UNCHANGED <<authVars, invVars, salesOtherVars, salesHistory, supplierForm, supplierHistory,
                   request, toast>>

\* onChange of the quantity input of a line (enabled for known products)
QuantityChange(index, val) ==
    /\ canUserSell
    /\ index \in DOMAIN form.items
    /\ form.items[index].isKnownProduct
    /\ form' = updateItem(index, [form.items[index] EXCEPT !.quantity = val])
    /\ UNCHANGED <<authVars, invVars, otherVars, salesHistory, supplierForm, supplierHistory,
                   request, toast>>

\* the button that removes a line
RemoveItem(index) ==
    /\ canUserSell
    /\ Len(form.items) > 1
    /\ index \in DOMAIN form.items
    /\ form' = [form EXCEPT !.items =
                   [i \in 1..(Len(form.items) - 1) |->
                       IF i < index THEN form.items[i] ELSE form.items[i + 1]]]
    /\ salesSuggest' = fieldsEffect(salesSuggest)
    /\ UNCHANGED <<authVars, invVars, salesOtherVars, salesHistory, supplierForm, supplierHistory,
                   request, toast>>

\* the button "Anadir Otro Item"
AppendItem ==
    /\ isInventoryLoaded /\ canUserSell /\ form.pointOfSale # ""
    /\ Len(form.items) < MaxItems
    /\ form' = [form EXCEPT !.items = Append(form.items, emptyItem)]
    /\ salesSuggest' = fieldsEffect(salesSuggest)
    /\ UNCHANGED <<authVars, invVars, salesOtherVars, salesHistory, supplierForm, supplierHistory,
                   request, toast>>

\* onValueChange of the point-of-sale select
SelectPointOfSale(value) ==
    /\ canUserSell /\ Len(accessiblePOS) > 1
    /\ includes(accessiblePOS, value)
    /\ form' = [pointOfSale |-> value, paymentMethod |-> form.paymentMethod,
                items |-> <<emptyItem>>]
    /\ salesSuggest' = resetSaleFormAndFocus(salesSuggest)
    /\ UNCHANGED <<authVars, invVars, salesOtherVars, salesHistory, supplierForm, supplierHistory,
                   request, toast>>

\* onFocus of the identifier input of a line
SalesFocus(index) ==
    /\ canUserSell /\ form.pointOfSale # ""
    /\ index \in DOMAIN form.items
    /\ LET currentIdVal == form.items[index].identifier
       IN  IF callsHandler(form, index)
           THEN /\ Len(handleIdentifierChange(index, currentIdVal).items) <= MaxItems
                /\ form' = handleIdentifierChange(index, currentIdVal)
                /\ salesSuggest' = suggestAfterChange(index, currentIdVal)
           ELSE /\ form' = form
                /\ salesSuggest' = onFocusSuggest(form, salesSuggest, index)
    /\ UNCHANGED <<authVars, invVars, salesOtherVars, salesHistory, supplierForm,
                   supplierHistory, request, toast>>

\* setActiveSuggestionIndex(prev => (prev + 1) % suggestions.length)
arrowDown(prev, length) == jsRem(prev + 1, length)

\* setActiveSuggestionIndex(prev => (prev - 1 + suggestions.length) % suggestions.length),
\* and that update without its turn around the list
arrowUp_noWrap(prev, length) == prev - 1

arrowUp(prev, length) == jsRem(prev - 1 + length, length)

closeSuggestions(sg) ==
    [sg EXCEPT !.isSuggestionsOpen = FALSE, !.suggestions = <<>>,
               !.activeSuggestionIndex = -1]

\* handleSuggestionClick(index, product)
handleSuggestionClick(index, suggestion) ==
    /\ form' = updateItem(index, knownItem(suggestion, 1))
    /\ salesSuggest' = closeSuggestions(salesSuggest)
    /\ toast' = toast

\* the first block of handleKeyDown is entered
keysNavigate(index) ==
    /\ salesSuggest.isSuggestionsOpen
    /\ salesSuggest.currentFocusIndex = index
    /\ Len(salesSuggest.suggestions) > 0
    /\ form.items[index].identifier # ""
    /\ trim(form.items[index].identifier) # <<>>
    /\ ~form.items[index].isKnownProduct

\* suggestions[activeSuggestionIndex] is a product
activeSuggestion(sg) ==
    /\ sg.activeSuggestionIndex >= 0
    /\ sg.activeSuggestionIndex < Len(sg.suggestions)

\* handleKeyDown, Enter, once no suggestion is taken: the list is closed and
\* the identifier of the line (the identifiers here have no spaces around
\* them, so trim() leaves all but the blank ones as they are) is looked up.
enterWithoutSuggestion(index) ==
    LET currentIdentifier == form.items[index].identifier
        targetPos == form.pointOfSale
        productInfo == getProductDetailsInPos(inventory, targetPos, currentIdentifier)
        closed == closeSuggestions(salesSuggest)
        updated == updateItem(index, knownItem(productInfo,
                                               orOne(form.items[index].quantity)))
        appended == [form EXCEPT !.items = Append(form.items, emptyItem)]
    IN  IF trim(currentIdentifier) # <<>> /\ targetPos # ""
        THEN IF productInfo = NoProduct
             THEN /\ toast' = "Producto no encontrado"
                  /\ form' = form
                  /\ salesSuggest' = closed
             ELSE /\ toast' = toast
                  /\ IF currentIdentifier # productInfo.barcode
                     THEN /\ form' = updated
                          /\ salesSuggest' = closed
                     ELSE IF index = Len(form.items)
                     THEN /\ Len(form.items) < MaxItems
                          /\ form' = [updated EXCEPT
                                          !.items = Append(updated.items, emptyItem)]
                          /\ salesSuggest' = [closed EXCEPT !.processingBarcode = TRUE,
                                                            !.timerFocus = index]
                     ELSE /\ form' = updated
                          /\ salesSuggest' =
                                 [onFocusSuggest(updated, closed, index + 1) EXCEPT
                                     !.currentFocusIndex = index + 1,
                                     !.processingBarcode = FALSE]
        ELSE /\ toast' = toast
             /\ IF index = Len(form.items)
                THEN /\ Len(form.items) < MaxItems
                     /\ form' = appended
                     /\ salesSuggest' = closed
                ELSE /\ form' = form
                     /\ salesSuggest' =
                            [onFocusSuggest(form, closed, index + 1) EXCEPT
                                !.currentFocusIndex = index + 1]

Keys == {"ArrowDown", "ArrowUp", "Enter", "Escape", "a"}

\* handleKeyDown(event, index) of the sales form
handleKeyDown(index, key) ==
    LET sg == salesSuggest
        length == Len(sg.suggestions)
    IN  IF sg.processingBarcode /\ key = "Enter"
        THEN /\ salesSuggest' = [sg EXCEPT !.processingBarcode = FALSE]
             /\ UNCHANGED <<form, toast>>
        ELSE IF keysNavigate(index) /\ key = "ArrowDown"
        THEN /\ salesSuggest' = [sg EXCEPT !.activeSuggestionIndex =
                                               arrowDown(sg.activeSuggestionIndex, length)]
             /\ UNCHANGED <<form, toast>>
        ELSE IF keysNavigate(index) /\ key = "ArrowUp"
        THEN /\ salesSuggest' = [sg EXCEPT !.activeSuggestionIndex =
                                               arrowUp(sg.activeSuggestionIndex, length)]
             /\ UNCHANGED <<form, toast>>
        ELSE IF keysNavigate(index) /\ key = "Escape"
        THEN /\ salesSuggest' = closeSuggestions(sg)
             /\ UNCHANGED <<form, toast>>
        ELSE IF key = "Enter"
        THEN IF sg.isSuggestionsOpen /\ activeSuggestion(sg)
             THEN handleSuggestionClick(index, sg.suggestions[sg.activeSuggestionIndex + 1])
             ELSE enterWithoutSuggestion(index)
        ELSE UNCHANGED <<form, toast, salesSuggest>>

\* onKeyDown of the identifier input of a line
SalesKeyDown(index, key) ==
    /\ canUserSell /\ form.pointOfSale # ""
    /\ index \in DOMAIN form.items
    /\ handleKeyDown(index, key)
    /\ UNCHANGED <<authVars, invVars, salesOtherVars, salesHistory, supplierForm,
                   supplierHistory, request>>

\* onClick of a suggestion of the list shown under a line
SalesSuggestionClick(index, suggIndex) ==
    /\ index \in DOMAIN form.items
    /\ showSuggestionsForThisItem(index)
    /\ suggIndex \in DOMAIN salesSuggest.suggestions
    /\ handleSuggestionClick(index, salesSuggest.suggestions[suggIndex])
    /\ UNCHANGED <<authVars, invVars, salesOtherVars, salesHistory, supplierForm,
                   supplierHistory, request>>

\* onOpenChange of the Popover of a line: the trigger was clicked, or the
\* open list was dismissed; after a dismissal the timer of 50 ms closes the
\* list or not, as the focus then stands.
SalesOpenChange(index, closes) ==
    /\ canUserSell /\ form.pointOfSale # ""
    /\ index \in DOMAIN form.items
    /\ LET open == ~showSuggestionsForThisItem(index)
           value == form.items[index].identifier
       IN  IF ~open /\ salesSuggest.currentFocusIndex = index
           THEN /\ salesSuggest' = [salesSuggest EXCEPT !.isSuggestionsOpen =
                                        IF closes THEN FALSE ELSE @]
                /\ form' = form
           ELSE IF open /\ value # "" /\ ~form.items[index].isKnownProduct
           THEN /\ Len(handleIdentifierChange(index, value).items) <= MaxItems
                /\ form' = handleIdentifierChange(index, value)
                /\ salesSuggest' = suggestAfterChange(index, value)
           ELSE /\ salesSuggest' = [salesSuggest EXCEPT !.isSuggestionsOpen = open]
                /\ form' = form
    /\ UNCHANGED <<authVars, invVars, salesOtherVars, salesHistory, supplierForm,
                   supplierHistory, request, toast>>

\* The timer handleIdentifierChange and handleKeyDown set after they appended
\* a line to a barcode read in the last one. Its newIndex is fields.length - 1
\* of the render that read the barcode, which is the line of the barcode: that
\* line is focused, if it is still there, and the reading ends.
SalesScanTimeout ==
    /\ salesSuggest.timerFocus # 0
    /\ form' = form
    /\ salesSuggest' =
           LET newIndex == salesSuggest.timerFocus
               focused == IF newIndex \in DOMAIN form.items
                          THEN [onFocusSuggest(form, salesSuggest, newIndex) EXCEPT
                                   !.currentFocusIndex = newIndex]
                          ELSE salesSuggest
           IN  [focused EXCEPT !.processingBarcode = FALSE, !.timerFocus = 0]
    /\ UNCHANGED <<authVars, invVars, salesOtherVars, salesHistory, supplierForm,
                   supplierHistory, request, toast>>

\* The line of the supplier form's defaultValues and of its reset; purchase
\* prices are counted in thousandths, so the default 0.001 is 1.
defaultSupplierProduct ==
    [identifier |-> "", barcode |-> "", productName |-> "", brandName |-> "",
     quantity |-> 1, purchasePrice |-> 1, isKnownProduct |-> FALSE]

PaymentMethods == {"cash", "card", "transfer"}

\* onValueChange of the payment-method select
SelectPaymentMethod(value) ==
    /\ canUserSell /\ form.pointOfSale # ""
    /\ form' = [form EXCEPT !.paymentMethod = value]
    /\ UNCHANGED <<authVars, invVars, otherVars, salesHistory, supplierForm,
                   supplierHistory, request, toast>>

\* The pages as they stand once the effect that follows the load of the
\* inventory has put the first accessible POS into the forms.
pagesReady ==
    /\ form = [pointOfSale |-> (IF canUserSell THEN accessiblePOS[1] ELSE ""),
               paymentMethod |-> "cash",
               items |-> <<emptyItem>>]
    /\ salesHistory = <<>>
    /\ supplierForm = [supplierName |-> "",
                       pointOfSale |-> (IF canUserSell THEN accessiblePOS[1] ELSE ""),
                       products |-> <<defaultSupplierProduct>>]
    /\ supplierHistory = <<>>
    /\ request = [url |-> "none"]
    /\ toast = "none"

InitSales ==
    /\ \E user \in Users : authSettled(user)
    /\ \E inv \in InventoryResponses : inventoryLoaded(inv)
    /\ pagesReady
    /\ idleOther

NextSales ==
    \/ \E index \in 1..MaxItems, identifierValue \in SaleIdentifiers :
           HandleIdentifierChange(index, identifierValue)
    \/ \E index \in 1..MaxItems, val \in 0..MaxQuantity : QuantityChange(index, val)
    \/ \E index \in 1..MaxItems : RemoveItem(index)
    \/ AppendItem
    \/ \E value \in toSet(keys(inventory)) : SelectPointOfSale(value)
    \/ \E responseOk \in BOOLEAN, dateTime \in 1..MaxClock :
           SubmitSale(responseOk, dateTime)

SpecSales == InitSales /\ [][NextSales]_vars

-----------------------------------------------------------------------------
(* SuppliersPage                                                           *)

supplierProductSchema(item) ==
    /\ nonEmpty(item.barcode)
    /\ nonEmpty(item.productName)
    /\ nonEmpty(item.brandName)
    /\ item.quantity >= 1
    /\ item.purchasePrice > 0

supplierFormSchema(data) ==
    /\ nonEmpty(data.supplierName)
    /\ nonEmpty(data.pointOfSale)
    /\ Len(data.products) >= 1
    /\ \A i \in DOMAIN data.products : supplierProductSchema(data.products[i])
    /\ \A i \in DOMAIN data.products :
           /\ data.products[i].barcode # "" /\ ~trimsToEmpty(data.products[i].barcode)
           /\ data.products[i].productName # ""
           /\ ~trimsToEmpty(data.products[i].productName)
           /\ data.products[i].brandName # ""
           /\ ~trimsToEmpty(data.products[i].brandName)

\* canUserAddStock is accessiblePOS.length > 0, as canUserSell is
canUserAddStock == Len(accessiblePOS) > 0

supplierProducts(data) ==
    SelectSeq(data.products, LAMBDA p :
        p.barcode # "" /\ p.productName # "" /\ p.brandName # "" /\ p.quantity > 0)

newEntryPayload(data) ==
    [url |-> "/api/php/add_supplier_entry.php",
     supplierName |-> data.supplierName,
     pointOfSale |-> data.pointOfSale,
     userId |-> currentUser.id,
     userName |-> currentUser.name,
     products |-> [i \in DOMAIN supplierProducts(data) |->
        [barcode |-> supplierProducts(data)[i].barcode,
         productName |-> supplierProducts(data)[i].productName,
         brandName |-> supplierProducts(data)[i].brandName,
         quantity |-> supplierProducts(data)[i].quantity,
         purchasePrice |-> supplierProducts(data)[i].purchasePrice,
         isKnownProductInPos |->
             getProductDetailsInPos(inventory, data.pointOfSale,
                                    supplierProducts(data)[i].barcode) # NoProduct]]]

\* onSubmit up to the request: the toast of the early return taken, or "fetch".
suppliersOnSubmitGate(data) ==
    IF currentUser = Null \/ ~canUserAddStock
       \/ ~includes(accessiblePOS, data.pointOfSale)
    THEN "Acceso Denegado"
    ELSE IF supplierProducts(data) = <<>> THEN "Entrada Invalida"
    ELSE "fetch"

\* [savedEntry, ...prev].sort((a, b) => b.dateTime - a.dateTime)
RECURSIVE sortByDateDesc(_)
sortByDateDesc(entries) ==
    IF entries = <<>> THEN <<>>
    ELSE LET rest == sortByDateDesc(Tail(entries))
             e == Head(entries)
         IN  SelectSeq(rest, LAMBDA x : x.dateTime > e.dateTime)
             \o <<e>>
             \o SelectSeq(rest, LAMBDA x : x.dateTime <= e.dateTime)

\* form.handleSubmit(onSubmit): the schema, onSubmit, and the answer of
\* add_supplier_entry.php (ok or not, with the dateTime of the saved entry it
\* returns, taken to repeat the payload).
suppliersHandleSubmit(responseOk, dateTime) ==
    /\ supplierSuggest' =
           IF /\ supplierFormSchema(supplierForm)
              /\ suppliersOnSubmitGate(supplierForm) = "fetch" /\ responseOk
           THEN fieldsEffect(supplierSuggest)
           ELSE supplierSuggest
    /\ IF ~supplierFormSchema(supplierForm)
       THEN UNCHANGED pageVars
       ELSE IF suppliersOnSubmitGate(supplierForm) # "fetch"
       THEN /\ toast' = suppliersOnSubmitGate(supplierForm)
            /\ UNCHANGED <<form, salesHistory, supplierForm, supplierHistory, request>>
       ELSE /\ request' = newEntryPayload(supplierForm)
            /\ IF responseOk
               THEN /\ Len(supplierHistory) < MaxHistory
                    /\ supplierHistory' = sortByDateDesc(
                           <<[dateTime |-> dateTime,
                              supplierName |-> supplierForm.supplierName,
                              pointOfSale |-> supplierForm.pointOfSale,
                              userId |-> currentUser.id,
                              products |-> newEntryPayload(supplierForm).products]>>
                           \o supplierHistory)
                    /\ toast' = "Entrada de Proveedor Registrada"
                    /\ supplierForm' = [supplierForm EXCEPT
                                           !.products = <<defaultSupplierProduct>>]
               ELSE /\ toast' = "Error al Guardar"
                    /\ UNCHANGED <<supplierForm, supplierHistory>>
            /\ UNCHANGED <<form, salesHistory>>

\* getProductDetails(identifier) of useInventory, which the context hands
\* out as getProductDetailsAnywhere: the first POS, in the order of the keys
\* of the inventory, that has the product.
getProductDetailsAnywhere(identifier) == firstDetails(inventory, keys(inventory), identifier)

\* { ...product, pos }
withPos(p, pos) ==
    [barcode |-> p.barcode, name |-> p.name, brand |-> p.brand,
     quantity |-> p.quantity, price |-> p.price, pos |-> pos]

\* The products handleIdentifierChange of the supplier form finds in every
\* POS of the inventory, one per barcode and POS.
RECURSIVE allProductsFound(_, _)
allProductsFound(inv, lowerIdentifier) ==
    IF inv = <<>> THEN <<>>
    ELSE LET found == SelectSeq(flatProducts(Head(inv).brands),
                          LAMBDA p : \/ stringIncludes(toLowerCase(p.name), lowerIdentifier)
                                     \/ stringIncludes(codeUnits(p.barcode), lowerIdentifier))
             distinct == firstPerBarcode(found, <<>>)
         IN  [i \in DOMAIN distinct |-> withPos(distinct[i], Head(inv).pos)]
             \o allProductsFound(Tail(inv), lowerIdentifier)

\* useFieldArray update(index, value) of the supplier form f
updateProduct(f, index, value) ==
    [f EXCEPT !.products = [f.products EXCEPT ![index] = value]]

\* handleIdentifierChange(index, identifierValue) of the supplier form: what
\* it does to the form
supplierIdentifierForm(index, identifierValue) ==
    LET typed == updateProduct(supplierForm, index,
                     [supplierForm.products[index] EXCEPT !.identifier = identifierValue])
        formItemValues == typed.products[index]
        cleared == [formItemValues EXCEPT !.barcode = "", !.productName = "",
                                          !.brandName = "", !.isKnownProduct = FALSE]
        previouslySelectedProduct == getProductDetailsAnywhere(formItemValues.barcode)
    IN  IF trim(identifierValue) = <<>> \/ ~isInventoryLoaded \/ currentUser = Null
           \/ isLoading
        THEN IF trim(identifierValue) = <<>> /\ formItemValues.isKnownProduct
             THEN updateProduct(typed, index,
                      [cleared EXCEPT !.identifier = "",
                                      !.quantity = orOne(formItemValues.quantity),
                                      !.purchasePrice = orOne(formItemValues.purchasePrice)])
             ELSE typed
        ELSE IF /\ formItemValues.isKnownProduct
                /\ previouslySelectedProduct # NoDetails
                /\ toLowerCase(identifierValue) #
                       toLowerCase(previouslySelectedProduct.product.name)
                /\ identifierValue # previouslySelectedProduct.product.barcode
        THEN updateProduct(typed, index, cleared)
        ELSE typed

\* handleIdentifierChange(index, identifierValue) of the supplier form: what
\* it does to the suggestion list sg
supplierIdentifierSuggest(sg, index, identifierValue) ==
    LET formItemValues == [supplierForm.products[index] EXCEPT
                              !.identifier = identifierValue]
        closed == [sg EXCEPT !.currentFocusIndex = index, !.suggestions = <<>>,
                             !.activeSuggestionIndex = -1,
                             !.isSuggestionsOpen = FALSE]
        knownProductName == formItemValues.productName
        knownBarcode == formItemValues.barcode
        newSuggestions ==
            slice(allProductsFound(inventory, toLowerCase(identifierValue)),
                  SuggestionLimit)
    IN  IF trim(identifierValue) = <<>> \/ ~isInventoryLoaded \/ currentUser = Null
           \/ isLoading
        THEN closed
        ELSE IF /\ formItemValues.isKnownProduct
                /\ \/ /\ knownProductName # ""
                      /\ toLowerCase(identifierValue) = toLowerCase(knownProductName)
                   \/ knownBarcode # "" /\ identifierValue = knownBarcode
        THEN closed
        ELSE [closed EXCEPT
                 !.suggestions = newSuggestions,
                 !.isSuggestionsOpen =
                     /\ Len(newSuggestions) > 0
                     /\ trim(identifierValue) # <<>>
                     /\ ~formItemValues.isKnownProduct]

\* onFocus of the identifier input of a line of the supplier form calls
\* handleIdentifierChange
supplierCallsHandler(index) ==
    LET currentIdVal == supplierForm.products[index].identifier
        isProdKnown == supplierForm.products[index].isKnownProduct
        knownProduct == getProductDetailsAnywhere(supplierForm.products[index].barcode)
    IN  \/ currentIdVal # "" /\ ~isProdKnown
        \/ /\ currentIdVal # "" /\ isProdKnown
           /\ knownProduct # NoDetails
           /\ toLowerCase(currentIdVal) # toLowerCase(knownProduct.product.name)
           /\ currentIdVal # knownProduct.product.barcode

\* onFocus of the identifier input of a line of the supplier form: what it
\* does to the suggestion list
supplierOnFocusSuggest(sg, index) ==
    IF supplierCallsHandler(index)
    THEN supplierIdentifierSuggest(sg, index, supplierForm.products[index].identifier)
    ELSE [sg EXCEPT !.currentFocusIndex = index, !.isSuggestionsOpen = FALSE,
                    !.suggestions = <<>>]

\* the open prop of the Popover of a line of the supplier form
supplierShowSuggestionsForThisItem(index) ==
    /\ supplierSuggest.currentFocusIndex = index
    /\ supplierSuggest.isSuggestionsOpen
    /\ Len(supplierSuggest.suggestions) > 0
    /\ supplierForm.pointOfSale # ""
    /\ supplierForm.products[index].identifier # ""
    /\ ~supplierForm.products[index].isKnownProduct

\* the identifier input of line `index` of the supplier form is enabled
supplierInput(index) ==
    /\ canUserAddStock /\ supplierForm.pointOfSale # ""
    /\ index \in DOMAIN supplierForm.products

supplierRest ==
    <<authVars, invVars, supplierOtherVars, form, salesHistory, supplierHistory, request>>

\* onChange of the identifier input of a line of the supplier form
SupplierIdentifierChange(index, identifierValue) ==
    /\ supplierInput(index)
    /\ supplierForm' = supplierIdentifierForm(index, identifierValue)
    /\ supplierSuggest' = supplierIdentifierSuggest(supplierSuggest, index, identifierValue)
    /\ UNCHANGED <<supplierRest, toast>>

SupplierFocus(index) ==
    /\ supplierInput(index)
    /\ supplierForm' =
           IF supplierCallsHandler(index)
           THEN supplierIdentifierForm(index, supplierForm.products[index].identifier)
           ELSE supplierForm
    /\ supplierSuggest' = supplierOnFocusSuggest(supplierSuggest, index)
    /\ UNCHANGED <<supplierRest, toast>>

\* handleSuggestionClick(index, product) of the supplier form
supplierHandleSuggestionClick(index, suggestion) ==
    /\ supplierForm' = updateProduct(supplierForm, index,
           [supplierForm.products[index] EXCEPT
               !.identifier = suggestion.name, !.barcode = suggestion.barcode,
               !.productName = suggestion.name, !.brandName = suggestion.brand,
               !.isKnownProduct = TRUE, !.quantity = orOne(@),
               !.purchasePrice = orOne(@)])
    /\ supplierSuggest' = closeSuggestions(supplierSuggest)
    /\ toast' = toast

\* /^\d{6,}$/.test(s)
isLikelyBarcode(s) ==
    /\ Len(codeUnits(s)) >= 6
    /\ \A i \in DOMAIN codeUnits(s) : codeUnits(s)[i] >= 48 /\ codeUnits(s)[i] <= 57

\* handleKeyDown of the supplier form, Enter, once no suggestion is taken (the
\* identifiers here have no spaces around them, so trim() leaves all but the
\* blank ones as they are; the line focused next, not being resolved, leaves
\* the form as it is).
supplierEnter(index) ==
    LET sg == IF supplierSuggest.isSuggestionsOpen
              THEN closeSuggestions(supplierSuggest)
              ELSE supplierSuggest
        item == supplierForm.products[index]
        currentIdentifier == item.identifier
        productInfo == getProductDetailsAnywhere(currentIdentifier)
    IN  IF item.isKnownProduct
        THEN /\ supplierSuggest' = sg
             /\ UNCHANGED <<supplierForm, toast>>
        ELSE IF trim(currentIdentifier) # <<>>
        THEN IF productInfo # NoDetails
             THEN supplierHandleSuggestionClick(index,
                      withPos(productInfo.product, productInfo.pos))
             ELSE /\ toast' = "Nuevo Producto"
                  /\ supplierForm' = updateProduct(supplierForm, index,
                         [item EXCEPT
                             !.barcode = IF isLikelyBarcode(currentIdentifier) /\ @ = ""
                                         THEN currentIdentifier ELSE @,
                             !.productName = IF ~isLikelyBarcode(currentIdentifier) /\ @ = ""
                                             THEN currentIdentifier ELSE @,
                             !.isKnownProduct = FALSE])
                  /\ supplierSuggest' = sg
        ELSE IF index = Len(supplierForm.products)
        THEN /\ Len(supplierForm.products) < MaxItems
             /\ supplierForm' = [supplierForm EXCEPT
                                    !.products = Append(@, defaultSupplierProduct)]
             /\ supplierSuggest' = fieldsEffect(sg)
             /\ toast' = toast
        ELSE /\ supplierSuggest' = [supplierOnFocusSuggest(sg, index + 1) EXCEPT
                                       !.currentFocusIndex = index + 1]
             /\ UNCHANGED <<supplierForm, toast>>

\* the first block of handleKeyDown of the supplier form is entered
supplierKeysNavigate(index) ==
    /\ supplierSuggest.isSuggestionsOpen
    /\ supplierSuggest.currentFocusIndex = index
    /\ Len(supplierSuggest.suggestions) > 0
    /\ supplierForm.products[index].identifier # ""
    /\ trim(supplierForm.products[index].identifier) # <<>>
    /\ ~supplierForm.products[index].isKnownProduct

\* handleKeyDown(event, index) of the supplier form
supplierHandleKeyDown(index, key) ==
    LET sg == supplierSuggest
        length == Len(sg.suggestions)
    IN  IF supplierKeysNavigate(index) /\ key = "ArrowDown"
        THEN /\ supplierSuggest' = [sg EXCEPT !.activeSuggestionIndex =
                                                  arrowDown(sg.activeSuggestionIndex, length)]
             /\ UNCHANGED <<supplierForm, toast>>
        ELSE IF supplierKeysNavigate(index) /\ key = "ArrowUp"
        THEN /\ supplierSuggest' = [sg EXCEPT !.activeSuggestionIndex =
                                                  arrowUp(sg.activeSuggestionIndex, length)]
             /\ UNCHANGED <<supplierForm, toast>>
        ELSE IF supplierKeysNavigate(index) /\ key = "Escape"
        THEN /\ supplierSuggest' = closeSuggestions(sg)
             /\ UNCHANGED <<supplierForm, toast>>
        ELSE IF key = "Enter"
        THEN IF supplierKeysNavigate(index) /\ activeSuggestion(sg)
             THEN supplierHandleSuggestionClick(index,
                      sg.suggestions[sg.activeSuggestionIndex + 1])
             ELSE supplierEnter(index)
        ELSE UNCHANGED <<supplierForm, toast, supplierSuggest>>

\* onKeyDown of the identifier input of a line of the supplier form
SupplierKeyDown(index, key) ==
    /\ supplierInput(index)
    /\ supplierHandleKeyDown(index, key)
    /\ UNCHANGED supplierRest

\* onClick of a suggestion of the list shown under a line of the supplier form
SupplierSuggestionClick(index, suggIndex) ==
    /\ index \in DOMAIN supplierForm.products
    /\ supplierShowSuggestionsForThisItem(index)
    /\ suggIndex \in DOMAIN supplierSuggest.suggestions
    /\ supplierHandleSuggestionClick(index, supplierSuggest.suggestions[suggIndex])
    /\ UNCHANGED supplierRest

\* onOpenChange of the Popover of a line of the supplier form
SupplierOpenChange(index, closes) ==
    /\ supplierInput(index)
    /\ LET open == ~supplierShowSuggestionsForThisItem(index)
           value == supplierForm.products[index].identifier
           known == supplierForm.products[index].isKnownProduct
       IN  IF ~open /\ supplierSuggest.currentFocusIndex = index
           THEN /\ supplierSuggest' = [supplierSuggest EXCEPT !.isSuggestionsOpen =
                                          IF closes THEN FALSE ELSE @]
                /\ supplierForm' = supplierForm
           ELSE IF open /\ value # "" /\ ~known
           THEN /\ supplierForm' = supplierIdentifierForm(index, value)
                /\ supplierSuggest' =
                       supplierIdentifierSuggest(supplierSuggest, index, value)
           ELSE IF ~open /\ known
           THEN /\ supplierSuggest' = closeSuggestions(supplierSuggest)
                /\ supplierForm' = supplierForm
           ELSE /\ supplierSuggest' = [supplierSuggest EXCEPT !.isSuggestionsOpen = open]
                /\ supplierForm' = supplierForm
    /\ UNCHANGED <<supplierRest, toast>>

\* The button that removes a line of the supplier form; the effect that
\* depends on fields.length then runs again: a single line left without
\* identifier and barcode becomes the default line, and the list is emptied.
SupplierRemove(index) ==
    /\ canUserAddStock
    /\ Len(supplierForm.products) > 1
    /\ index \in DOMAIN supplierForm.products
    /\ LET left == [i \in 1..(Len(supplierForm.products) - 1) |->
                       IF i < index THEN supplierForm.products[i]
                       ELSE supplierForm.products[i + 1]]
       IN  supplierForm' = [supplierForm EXCEPT !.products =
               IF Len(left) = 1 /\ left[1].identifier = "" /\ left[1].barcode = ""
               THEN <<defaultSupplierProduct>>
               ELSE left]
    /\ supplierSuggest' = fieldsEffect(supplierSuggest)
    /\ UNCHANGED <<supplierRest, toast>>


-----------------------------------------------------------------------------
(* The submit handlers of both pages, applied to every value of their forms *)

PosInputs == {"", "Main Store", "Warehouse", "outlet"}

SaleItemInputs ==
    { emptyItem,
      [identifier |-> "Gel", barcode |-> "101", productName |-> "Gel",
       brandName |-> "Loreal", quantity |-> 1, price |-> 5,
       isKnownProduct |-> TRUE, stock |-> 2],
      [identifier |-> "Gel", barcode |-> "101", productName |-> "Gel",
       brandName |-> "Loreal", quantity |-> 2, price |-> 5,
       isKnownProduct |-> TRUE, stock |-> 2],
      [identifier |-> "Wax", barcode |-> "102", productName |-> "Wax",
       brandName |-> "Revlon", quantity |-> 1, price |-> 7,
       isKnownProduct |-> FALSE, stock |-> 0] }

\* the sequences over S of at most n elements
RECURSIVE seqsUpTo(_, _)
seqsUpTo(S, n) ==
    IF n = 0 THEN {<<>>}
    ELSE seqsUpTo(S, n - 1)
         \cup {Append(q, x) : q \in {r \in seqsUpTo(S, n - 1) : Len(r) = n - 1}, x \in S}

SalesFormInputs ==
    [pointOfSale : PosInputs, paymentMethod : {"cash", "card"},
     items : seqsUpTo(SaleItemInputs, MaxItems)]

SupplierFormInputs ==
    [supplierName : {"Distribuidora"},
     pointOfSale : PosInputs,
     products : { <<defaultSupplierProduct>>,
                  <<[identifier |-> "", barcode |-> "103", productName |-> "Tinte",
                     brandName |-> "Revlon", quantity |-> 2, purchasePrice |-> 4,
                     isKnownProduct |-> FALSE]>> }]

SubmitSalesForm(responseOk, dateTime) ==
    /\ salesHandleSubmit(responseOk, dateTime)
    /\ UNCHANGED <<authVars, invVars, salesOtherVars>>

SubmitSupplierForm(responseOk, dateTime) ==
    /\ suppliersHandleSubmit(responseOk, dateTime)
    /\ UNCHANGED <<authVars, invVars, supplierOtherVars>>

InitSubmit ==
    /\ \E user \in Users \cup {Null} : authSettled(user)
    /\ \E inv \in InventoryResponses : inventoryLoaded(inv)
    /\ form \in SalesFormInputs
    /\ supplierForm \in SupplierFormInputs
    /\ salesHistory = <<>>
    /\ supplierHistory = <<>>
    /\ request = [url |-> "none"]
    /\ toast = "none"
    /\ idleOther

NextSubmit ==
    \/ \E responseOk \in BOOLEAN, dateTime \in 1..MaxClock :
           SubmitSalesForm(responseOk, dateTime)
    \/ \E responseOk \in BOOLEAN, dateTime \in 1..MaxClock :
           SubmitSupplierForm(responseOk, dateTime)

SpecSubmit == InitSubmit /\ [][NextSubmit]_vars

-----------------------------------------------------------------------------
(* The pages that read the sales history: CajaPage and GraficaPage          *)

isAdmin == currentUser # Null /\ includes(currentUser.allowedPOS, "*")

RECURSIVE sumAmounts(_)
sumAmounts(sales) ==
    IF sales = <<>> THEN 0
    ELSE Head(sales).totalAmount + sumAmounts(Tail(sales))

\* todaySales.filter(s => s.paymentMethod === method).reduce(...)
incomeOf(todaySales, method) ==
    sumAmounts(SelectSeq(todaySales, LAMBDA s : s.paymentMethod = method))

\* The effect of CajaPage that computes the incomes of the day `today`.
CajaLoad(today) ==
    /\ isAdmin
    /\ LET allSales == parse(localStorage.salesHistory)
                       \o parse(localStorage.wholesaleSalesHistory)
           todaySales == SelectSeq(allSales, LAMBDA sale : sale.dateTime = today)
       IN  caja' = [today |-> today,
                    dailyCashIncome |-> incomeOf(todaySales, "cash"),
                    dailyCardIncome |-> incomeOf(todaySales, "card"),
                    dailyTransferIncome |-> incomeOf(todaySales, "transfer")]
    /\ UNCHANGED <<authVars, invVars, pageVars, localStorage, allSalesData,
                   allWholesaleSalesData, desglose, suggestVars>>

\* The effect of GraficaPage that loads both histories.
GraficaLoad ==
    /\ allSalesData' = parse(localStorage.salesHistory)
    /\ allWholesaleSalesData' = parse(localStorage.wholesaleSalesHistory)
    /\ UNCHANGED <<authVars, invVars, pageVars, localStorage, caja, desglose,
                   suggestVars>>

\* Sales an earlier session may have left in the browser.
earlierSale ==
    [dateTime |-> 1, pointOfSale |-> "Main Store", paymentMethod |-> "cash",
     userId |-> "mainstore-user",
     items |-> <<[barcode |-> "102", productName |-> "Wax", brandName |-> "Revlon",
                  quantity |-> 1, price |-> 7]>>,
     totalAmount |-> 7]

StorageInputs ==
    [salesHistory : {Absent, stored(<<>>), stored(<<earlierSale>>)},
     wholesaleSalesHistory : {Absent, stored(<<earlierSale>>)}]

\* The form holds what the page's handlers put there for the inventory.
formFitsInventory(f) ==
    /\ includes(accessiblePOS, f.pointOfSale)
    /\ \A i \in DOMAIN f.items :
           \/ f.items[i] = emptyItem
           \/ /\ f.items[i].isKnownProduct
              /\ LET info == getProductDetailsInPos(inventory, f.pointOfSale,
                                                    f.items[i].barcode)
                 IN  /\ info # NoProduct
                     /\ f.items[i] = knownItem(info, f.items[i].quantity)

InitHistory ==
    /\ \E user \in Users : authSettled(user)
    /\ \E inv \in InventoryResponses : inventoryLoaded(inv)
    /\ form \in SalesFormInputs
    /\ formFitsInventory(form)
    /\ salesHistory = <<>>
    /\ supplierForm = [supplierName |-> "", pointOfSale |-> form.pointOfSale,
                       products |-> <<defaultSupplierProduct>>]
    /\ supplierHistory = <<>>
    /\ request = [url |-> "none"]
    /\ toast = "none"
    /\ localStorage \in StorageInputs
    /\ caja = cajaInitial
    /\ allSalesData = <<>>
    /\ allWholesaleSalesData = <<>>
    /\ desglose = desgloseInitial(1)
    /\ idleSuggest

NextHistory ==
    \/ \E responseOk \in BOOLEAN, dateTime \in 1..MaxClock :
           SubmitSale(responseOk, dateTime)
    \/ \E value \in PaymentMethods : SelectPaymentMethod(value)
    \/ \E today \in 1..MaxClock : CajaLoad(today)
    \/ GraficaLoad

SpecHistory == InitHistory /\ [][NextHistory]_vars

-----------------------------------------------------------------------------
(* DesgloseVentasPage: the breakdown of sales by brand, product and day     *)

\* a.localeCompare(b) < 0 for strings of letters, digits and spaces: first
\* without regard to case, then lower case before upper case.
RECURSIVE caseLess(_, _)
caseLess(u, v) ==
    IF u = <<>> \/ v = <<>> THEN FALSE
    ELSE IF Head(u) # Head(v) THEN Head(u) > Head(v)
    ELSE caseLess(Tail(u), Tail(v))

localeLess(u, v) ==
    \/ unitsLess(lowerUnits(u), lowerUnits(v))
    \/ lowerUnits(u) = lowerUnits(v) /\ caseLess(u, v)

RECURSIVE productsOfPosList(_, _)
productsOfPosList(inv, posList) ==
    IF posList = <<>> THEN <<>>
    ELSE flatProducts(brandsOf(inv, Head(posList)))
         \o productsOfPosList(inv, Tail(posList))


allInventoryProducts(inv) ==
    firstPerBarcode(productsOfPosList(inv, getPointsOfSale(inv)), <<>>)

emptyRow(invProduct, dateKeys) ==
    [barcode |-> invProduct.barcode,
     productName |-> invProduct.name,
     brandName |-> trim(invProduct.brand),
     dailySales |-> [key \in {dateKeys[i] : i \in DOMAIN dateKeys} |-> 0],
     totalSalesInRange |-> 0]

\* productDailySales before the sales are added, as Object.values lists it:
\* the barcodes are digit strings of one length, which an object keeps in
\* ascending order.
initialRows(inv, dateKeys) ==
    LET products == allInventoryProducts(inv)
        barcodes == sort([i \in DOMAIN products |-> products[i].barcode])
    IN  [i \in DOMAIN barcodes |->
            emptyRow(products[CHOOSE j \in DOMAIN products :
                                  products[j].barcode = barcodes[i]], dateKeys)]

\* combinedSales.filter(...) without the bounds of the period
salesInPeriod_anyDate(combinedSales, startDate, endDate) ==
    SelectSeq(combinedSales, LAMBDA sale : isValid(sale.dateTime))

salesInPeriod(combinedSales, startDate, endDate) ==
    SelectSeq(combinedSales, LAMBDA sale :
        /\ isValid(sale.dateTime)
        /\ sale.dateTime >= startDate
        /\ sale.dateTime <= endDate)

\* the body of sale.items.forEach for one item
addItem(rows, item, dayKey) ==
    [i \in DOMAIN rows |->
        IF rows[i].barcode = item.barcode
        THEN LET old == rows[i].dailySales
             IN  [rows[i] EXCEPT
                    !.dailySales =
                        [key \in DOMAIN old \cup {dayKey} |->
                            (IF key \in DOMAIN old THEN old[key] ELSE 0)
                            + (IF key = dayKey THEN item.quantity ELSE 0)],
                    !.totalSalesInRange = rows[i].totalSalesInRange + item.quantity]
        ELSE rows[i]]

RECURSIVE addItems(_, _, _)
addItems(rows, items, dayKey) ==
    IF items = <<>> THEN rows
    ELSE addItems(addItem(rows, Head(items), dayKey), Tail(items), dayKey)

RECURSIVE addSales(_, _)
addSales(rows, sales) ==
    IF sales = <<>> THEN rows
    ELSE addSales(addItems(rows, Head(sales).items, format(Head(sales).dateTime)),
                  Tail(sales))

MarcaDesconocida == codeUnits("Marca Desconocida")

\* Object.values(productDailySales).forEach(...): the groups in the order
\* their display names were first seen
RECURSIVE groupByBrand(_, _, _)
groupByBrand(rows, dateKeys, groups) ==
    IF rows = <<>> THEN groups
    ELSE LET productSummary == Head(rows)
             originalBrandName == IF productSummary.brandName = <<>>
                                  THEN MarcaDesconocida
                                  ELSE productSummary.brandName
             normalizedBrandKey == lowerUnits(originalBrandName)
             known == {g \in DOMAIN groups :
                          lowerUnits(groups[g].brand) = normalizedBrandKey}
         IN  IF known = {}
             THEN groupByBrand(Tail(rows), dateKeys,
                      Append(groups, [brand |-> originalBrandName,
                                      dates |-> dateKeys,
                                      products |-> <<productSummary>>]))
             ELSE groupByBrand(Tail(rows), dateKeys,
                      [groups EXCEPT ![CHOOSE g \in known : TRUE].products =
                                         Append(@, productSummary)])

\* brandData.products.sort((a, b) => a.productName.localeCompare(b.productName))
RECURSIVE sortProducts(_)
sortProducts(rows) ==
    IF rows = <<>> THEN <<>>
    ELSE LET rest == sortProducts(Tail(rows))
             name == codeUnits(Head(rows).productName)
         IN  SelectSeq(rest, LAMBDA r : localeLess(codeUnits(r.productName), name))
             \o <<Head(rows)>>
             \o SelectSeq(rest, LAMBDA r : ~localeLess(codeUnits(r.productName), name))

\* Object.keys(groupedByBrand).sort((a, b) => a.localeCompare(b))
RECURSIVE sortBrands(_)
sortBrands(groups) ==
    IF groups = <<>> THEN <<>>
    ELSE LET rest == sortBrands(Tail(groups))
             name == Head(groups).brand
         IN  SelectSeq(rest, LAMBDA g : localeLess(g.brand, name))
             \o <<Head(groups)>>
             \o SelectSeq(rest, LAMBDA g : ~localeLess(g.brand, name))

\* The aggregation effect, run on the state `d` of the page.
aggregate(d, inv, loaded) ==
    IF ~loaded \/ Len(keys(inv)) = 0
    THEN [d EXCEPT !.productSalesMatrixByBrand = <<>>, !.brandsForAccordion = <<>>]
    ELSE LET startDate == d.selectedMonthDateRange.from
             endDate == d.selectedMonthDateRange.to
             daysInPeriod == eachDayOfInterval(startDate, endDate)
             dateKeys == [i \in DOMAIN daysInPeriod |-> format(daysInPeriod[i])]
             combinedSales == d.allSalesData \o d.allWholesaleSalesData
             productDailySales ==
                 addSales(initialRows(inv, dateKeys),
                          salesInPeriod(combinedSales, startDate, endDate))
             groupedByBrand == groupByBrand(productDailySales, dateKeys, <<>>)
             sortedGroupedByBrand ==
                 sortBrands([g \in DOMAIN groupedByBrand |->
                     [groupedByBrand[g] EXCEPT !.products = sortProducts(@)]])
         IN  [d EXCEPT
                !.productSalesMatrixByBrand = sortedGroupedByBrand,
                !.brandsForAccordion =
                    [g \in DOMAIN sortedGroupedByBrand |-> sortedGroupedByBrand[g].brand]]

\* The effect that reads both histories, and the aggregation that follows it.
DesgloseLoad ==
    /\ desglose' = aggregate(
           [desglose EXCEPT
               !.allSalesData = parse(localStorage.salesHistory),
               !.allWholesaleSalesData = parse(localStorage.wholesaleSalesHistory)],
           inventory, isInventoryLoaded)
    /\ UNCHANGED <<authVars, invVars, pageVars, storageVars, suggestVars>>

\* MonthPicker: handleDaySelect(day), its effect calling onMonthChange, and
\* the aggregation that follows the new range.
SelectMonth(day) ==
    /\ desglose' = aggregate(
           [desglose EXCEPT
               !.selectedMonthDateRange = [from |-> startOfMonth(startOfMonth(day)),
                                           to |-> endOfMonth(startOfMonth(day))]],
           inventory, isInventoryLoaded)
    /\ UNCHANGED <<authVars, invVars, pageVars, storageVars, suggestVars>>

MaxDay == DaysInMonth * MonthsInYear + DaysInMonth

saleOn(dateTime, items) ==
    [dateTime |-> dateTime, pointOfSale |-> "Main Store", paymentMethod |-> "cash",
     userId |-> "mainstore-user", items |-> items, totalAmount |-> 0]

soldItem(barcode, quantity) ==
    [barcode |-> barcode, productName |-> "Gel", brandName |-> "Loreal",
     quantity |-> quantity, price |-> 5]

\* Sales on the first two days, on the first day of the second month, on the
\* first day of the next year, with a barcode no inventory has, and with a
\* date that does not parse.
SalePool ==
    { saleOn(1, <<soldItem("101", 1), soldItem("102", 2)>>),
      saleOn(2, <<soldItem("101", 2), soldItem("999", 1)>>),
      saleOn(DaysInMonth + 1, <<soldItem("103", 1)>>),
      saleOn(DaysInMonth * MonthsInYear + 1, <<soldItem("101", 1)>>),
      saleOn(InvalidDate, <<soldItem("101", 1)>>) }

DesgloseStorageInputs ==
    [salesHistory : {Absent} \cup {stored(h) : h \in seqsUpTo(SalePool, 2)},
     wholesaleSalesHistory :
        {Absent, stored(<<saleOn(2, <<soldItem("101", 1), soldItem("103", 2)>>)>>)}]

\* an inventory whose brand names differ in case and in blanks, or are empty
DesgloseInventories ==
    InventoryResponses \cup
    { << [pos |-> "Main Store", brands |->
            << [brand |-> "Loreal", products |->
                  << product("101", "Gel", "Loreal", 2, 5) >>],
               [brand |-> "loreal ", products |->
                  << product("103", "Tinte", "loreal ", 1, 9) >>],
               [brand |-> "", products |->
                  << product("102", "Wax", "", 1, 7) >>] >>] >> }

InitDesglose ==
    /\ authSettled(mockUsers[2])
    /\ \E inv \in DesgloseInventories : inventoryLoaded(inv)
    /\ idlePages
    /\ localStorage \in DesgloseStorageInputs
    /\ caja = cajaInitial
    /\ allSalesData = <<>>
    /\ allWholesaleSalesData = <<>>
    /\ \E now \in 1..MaxDay :
           desglose = aggregate(desgloseInitial(now), inventory, isInventoryLoaded)
    /\ idleSuggest

NextDesglose ==
    \/ DesgloseLoad
    \/ \E day \in 1..MaxDay : SelectMonth(day)

SpecDesglose == InitDesglose /\ [][NextDesglose]_vars

-----------------------------------------------------------------------------
(* InventoryTable: the search of an inventory tab and its suggestions       *)

\* the prop inventoryData of the mounted table: inventory[pos]
inventoryData == brandsOf(inventory, inventoryTable.pointOfSale)

\* the test filterInventory and generateSuggestions make of a product
termMatches(brand, p, lowerCaseTerm) ==
    \/ stringIncludes(toLowerCase(p.name), lowerCaseTerm)
    \/ stringIncludes(codeUnits(p.barcode), lowerCaseTerm)
    \/ stringIncludes(toLowerCase(brand), lowerCaseTerm)

\* filterInventory(data, term)
filterInventory(data, term) ==
    IF term = "" THEN data
    ELSE LET filtered ==
                 [i \in DOMAIN data |->
                     [brand |-> data[i].brand,
                      products |-> SelectSeq(data[i].products, LAMBDA p :
                          termMatches(data[i].brand, p, toLowerCase(term)))]]
         IN  SelectSeq(filtered, LAMBDA b : Len(b.products) > 0)

\* the products generateSuggestions would push without its limit
RECURSIVE matchesOfBrands(_, _)
matchesOfBrands(data, lowerCaseTerm) ==
    IF data = <<>> THEN <<>>
    ELSE SelectSeq(Head(data).products, LAMBDA p :
             termMatches(Head(data).brand, p, lowerCaseTerm))
         \o matchesOfBrands(Tail(data), lowerCaseTerm)

\* generateSuggestions(data, term, limit): the loops stop at `limit` results
generateSuggestions(data, term, limit) ==
    IF trim(term) = <<>> THEN <<>>
    ELSE slice(matchesOfBrands(data, toLowerCase(term)), limit)

\* The effects that run after a render in which searchTerm changed to `term`:
\* debouncedSearch is called, and the filtered data follow the term.
searchEffects(table, term) ==
    LET filtered == [table EXCEPT !.filteredData = filterInventory(inventoryData, term),
                                  !.debounced = <<term>>]
    IN  IF trim(term) = <<>>
        THEN [filtered EXCEPT !.isSuggestionsOpen = FALSE, !.suggestions = <<>>]
        ELSE filtered

\* handleSearchChange(event), and the effects of the render that follows
handleSearchChange(newSearchTerm) ==
    LET newSuggestions ==
            generateSuggestions(inventoryData, newSearchTerm, SuggestionLimit)
        typed == [inventoryTable EXCEPT !.searchTerm = newSearchTerm]
        changed ==
            IF newSearchTerm # ""
            THEN [typed EXCEPT !.suggestions = newSuggestions,
                               !.isSuggestionsOpen = Len(newSuggestions) > 0,
                               !.activeSuggestionIndex = -1]
            ELSE [typed EXCEPT !.isSuggestionsOpen = FALSE, !.suggestions = <<>>]
    IN  searchEffects(changed, newSearchTerm)

tableMounted == inventoryTable.pointOfSale # ""

tableRest == <<authVars, invVars, pageVars, storageVars, desglose, salesSuggest,
               supplierSuggest>>

\* onChange of the search input
TableSearchChange(newSearchTerm) ==
    /\ tableMounted
    /\ newSearchTerm # inventoryTable.searchTerm
    /\ inventoryTable' = handleSearchChange(newSearchTerm)
    /\ UNCHANGED tableRest

\* the 300 ms of debouncedSearch are over
TableDebounce ==
    /\ tableMounted
    /\ inventoryTable.debounced # <<>>
    /\ LET term == inventoryTable.debounced[1]
           suggs == generateSuggestions(inventoryData, term, SuggestionLimit)
       IN  inventoryTable' =
               [inventoryTable EXCEPT
                   !.filteredData = filterInventory(inventoryData, term),
                   !.suggestions = suggs,
                   !.isSuggestionsOpen = term # "" /\ Len(suggs) > 0,
                   !.activeSuggestionIndex = -1,
                   !.debounced = <<>>]
    /\ UNCHANGED tableRest

\* onFocus of the search input
TableFocus ==
    /\ tableMounted
    /\ LET currentSuggestions ==
               generateSuggestions(inventoryData, inventoryTable.searchTerm,
                                   SuggestionLimit)
       IN  inventoryTable' =
               IF trim(inventoryTable.searchTerm) # <<>> /\ Len(currentSuggestions) > 0
               THEN [inventoryTable EXCEPT !.suggestions = currentSuggestions,
                                           !.isSuggestionsOpen = TRUE]
               ELSE inventoryTable
    /\ UNCHANGED tableRest

\* handleSuggestionClick(product) of the table, and the effects of the render
\* that follows when the term changed
tableHandleSuggestionClick(suggestion) ==
    LET clicked == [inventoryTable EXCEPT
                       !.searchTerm = suggestion.name,
                       !.filteredData = filterInventory(inventoryData, suggestion.name),
                       !.isSuggestionsOpen = FALSE,
                       !.suggestions = <<>>,
                       !.activeSuggestionIndex = -1]
    IN  IF suggestion.name # inventoryTable.searchTerm
        THEN searchEffects(clicked, suggestion.name)
        ELSE clicked

\* handleKeyDown(event) of the table
tableHandleKeyDown(key) ==
    LET table == inventoryTable
        length == Len(table.suggestions)
    IN  IF ~table.isSuggestionsOpen \/ length = 0 THEN table
        ELSE IF key = "ArrowDown"
        THEN [table EXCEPT !.activeSuggestionIndex = arrowDown(@, length)]
        ELSE IF key = "ArrowUp"
        THEN [table EXCEPT !.activeSuggestionIndex = arrowUp(@, length)]
        ELSE IF key = "Enter"
        THEN IF activeSuggestion(table)
             THEN tableHandleSuggestionClick(
                      table.suggestions[table.activeSuggestionIndex + 1])
             ELSE table
        ELSE IF key = "Escape"
        THEN closeSuggestions(table)
        ELSE table

\* onKeyDown of the search input
TableKeyDown(key) ==
    /\ tableMounted
    /\ inventoryTable' = tableHandleKeyDown(key)
    /\ UNCHANGED tableRest

\* the open prop of the Popover of the table
tableOpen ==
    /\ inventoryTable.isSuggestionsOpen
    /\ trim(inventoryTable.searchTerm) # <<>>
    /\ Len(inventoryTable.suggestions) > 0

\* onClick of a suggestion of the table
TableSuggestionClick(suggIndex) ==
    /\ tableMounted /\ tableOpen
    /\ suggIndex \in DOMAIN inventoryTable.suggestions
    /\ inventoryTable' = tableHandleSuggestionClick(inventoryTable.suggestions[suggIndex])
    /\ UNCHANGED tableRest

\* onOpenChange of the Popover of the table: the trigger was clicked, or the
\* open list was dismissed; after a dismissal the timer of 100 ms closes the
\* list or not, as the focus then stands.
TableOpenChange(closes) ==
    /\ tableMounted
    /\ inventoryTable' =
           [inventoryTable EXCEPT !.isSuggestionsOpen =
               IF ~tableOpen THEN TRUE ELSE IF closes THEN FALSE ELSE @]
    /\ UNCHANGED tableRest

-----------------------------------------------------------------------------
(* The suggestion lists of the three pages, one page mounted at a time      *)

\* An inventory whose Warehouse holds more products than a list may show.
crowdedInventory ==
    << [pos |-> "Warehouse", brands |->
          << [brand |-> "Loreal", products |->
                << product("101", "Gel", "Loreal", 1, 5),
                   product("102", "Gel", "Loreal", 1, 5),
                   product("103", "Gel", "Loreal", 1, 5),
                   product("104", "Gel", "Loreal", 1, 5) >>],
             [brand |-> "Revlon", products |->
                << product("105", "Gel", "Revlon", 1, 5),
                   product("106", "Gel", "Revlon", 1, 5),
                   product("107", "Gel", "Revlon", 1, 5),
                   product("108", "Gel", "Revlon", 1, 5) >>] >>] >>

SuggestInventories ==
    { crowdedInventory,
      << [pos |-> "Warehouse", brands |->
            << [brand |-> "Loreal", products |->
                  << product("101", "Gel", "Loreal", 3, 5),
                     product("103", "Tinte", "Loreal", 1, 9) >>] >>],
         [pos |-> "Main Store", brands |->
            << [brand |-> "Loreal", products |->
                  << product("101", "Gel", "Loreal", 2, 5) >>],
               [brand |-> "Revlon", products |->
                  << product("102", "Wax", "Revlon", 1, 7) >>] >>] >> }

SuggestTerms == {"", "ge", "10", "101"}

\* The page that is mounted, once the inventory is loaded and the effect that
\* follows has put the first accessible POS into its form.
tablePage ==
    /\ idlePages
    /\ \E pos \in toSet(accessiblePOS) :
           inventoryTable =
               [inventoryTableInitial(pos) EXCEPT
                   !.filteredData = brandsOf(inventory, pos), !.debounced = <<"">>]
    /\ salesSuggest = noSuggestions
    /\ supplierSuggest = noSuggestions

salesPage ==
    /\ form = [pointOfSale |-> accessiblePOS[1], paymentMethod |-> "cash",
               items |-> <<emptyItem>>]
    /\ supplierForm = [supplierName |-> "", pointOfSale |-> "", products |-> <<>>]
    /\ idleSuggest

suppliersPage ==
    /\ form = [pointOfSale |-> "", paymentMethod |-> "cash", items |-> <<>>]
    /\ supplierForm = [supplierName |-> "", pointOfSale |-> accessiblePOS[1],
                       products |-> <<defaultSupplierProduct>>]
    /\ idleSuggest

InitSuggest ==
    /\ authSettled(mockUsers[2])
    /\ \E inv \in SuggestInventories : inventoryLoaded(inv)
    /\ canUserSell
    /\ salesHistory = <<>>
    /\ supplierHistory = <<>>
    /\ request = [url |-> "none"]
    /\ toast = "none"
    /\ idleStorage
    /\ desglose = desgloseInitial(1)
    /\ tablePage \/ salesPage \/ suppliersPage

NextSuggest ==
    \/ \E term \in SuggestTerms : TableSearchChange(term)
    \/ TableDebounce
    \/ TableFocus
    \/ \E key \in Keys : TableKeyDown(key)
    \/ \E suggIndex \in 1..SuggestionLimit : TableSuggestionClick(suggIndex)
    \/ \E closes \in BOOLEAN : TableOpenChange(closes)
    \/ \E index \in 1..MaxItems, identifierValue \in SuggestTerms :
           HandleIdentifierChange(index, identifierValue)
    \/ \E index \in 1..MaxItems : SalesFocus(index)
    \/ \E index \in 1..MaxItems, key \in Keys : SalesKeyDown(index, key)
    \/ \E index \in 1..MaxItems, suggIndex \in 1..SuggestionLimit :
           SalesSuggestionClick(index, suggIndex)
    \/ \E index \in 1..MaxItems, closes \in BOOLEAN : SalesOpenChange(index, closes)
    \/ SalesScanTimeout
    \/ \E index \in 1..MaxItems : RemoveItem(index)
    \/ \E index \in 1..MaxItems, identifierValue \in SuggestTerms :
           SupplierIdentifierChange(index, identifierValue)
    \/ \E index \in 1..MaxItems : SupplierFocus(index)
    \/ \E index \in 1..MaxItems, key \in Keys : SupplierKeyDown(index, key)
    \/ \E index \in 1..MaxItems, suggIndex \in 1..SuggestionLimit :
           SupplierSuggestionClick(index, suggIndex)
    \/ \E index \in 1..MaxItems, closes \in BOOLEAN : SupplierOpenChange(index, closes)
    \/ \E index \in 1..MaxItems : SupplierRemove(index)

SpecSuggest == InitSuggest /\ [][NextSuggest]_vars

-----------------------------------------------------------------------------
(* Claims about the sales page                                             *)

RECURSIVE quantityOf(_, _)
\* the quantity a list of payload lines asks of one barcode
quantityOf(barcode, items) ==
    IF items = <<>> THEN 0
    ELSE (IF Head(items).barcode = barcode THEN Head(items).quantity ELSE 0)
         + quantityOf(barcode, Tail(items))

\* C1: a sale sent to /api/php/record_sale.php does not exceed the stock: for
\* every barcode of the payload the quantity summed over the lines that carry
\* it is at most the quantity getProductDetailsInPos reports for that barcode
\* in the selected point of sale.
C1_SaleWithinStock ==
    request.url = "/api/php/record_sale.php" =>
        \A i \in DOMAIN request.items :
            quantityOf(request.items[i].barcode, request.items)
                <= getProductDetailsInPos(inventory, request.pointOfSale,
                                          request.items[i].barcode).quantity

\* The current user may not use `pos`: there is no user, the user has no
\* accessible point of sale, or `pos` is not among them.
lacksAccess(pos) ==
    \/ currentUser = Null
    \/ getPointsOfSaleForUser(currentUser, inventory) = <<>>
    \/ ~includes(getPointsOfSaleForUser(currentUser, inventory), pos)

\* C2: the sales page and the supplier-entry page never POST for a user who
\* lacks access to the selected point of sale: then onSubmit shows 'Acceso
\* Denegado', sends no request and leaves history and form unchanged.
C2_NoPostWithoutAccess ==
    /\ [](request.url # "none" =>
             /\ currentUser # Null
             /\ request.userId = currentUser.id
             /\ mayAccess(currentUser, request.pointOfSale)
             /\ request.pointOfSale \in toSet(keys(inventory)))
    /\ [][ ( /\ \E responseOk \in BOOLEAN, dateTime \in 1..MaxClock :
                    SubmitSalesForm(responseOk, dateTime)
             /\ salesFormSchema(form)
             /\ lacksAccess(form.pointOfSale) )
           => ( /\ toast' = "Acceso Denegado"
                /\ UNCHANGED <<request, salesHistory, form>> ) ]_vars
    /\ [][ ( /\ \E responseOk \in BOOLEAN, dateTime \in 1..MaxClock :
                    SubmitSupplierForm(responseOk, dateTime)
             /\ supplierFormSchema(supplierForm)
             /\ lacksAccess(supplierForm.pointOfSale) )
           => ( /\ toast' = "Acceso Denegado"
                /\ UNCHANGED <<request, supplierHistory, supplierForm>> ) ]_vars

\* The Main Store user submitted a valid sale for the Warehouse and was refused.
C2_Witness ==
    /\ currentUser.id = "mainstore-user"
    /\ form.pointOfSale = "Warehouse"
    /\ salesFormSchema(form)
    /\ includes(keys(inventory), "Warehouse")
    /\ toast = "Acceso Denegado"
    /\ request.url = "none"
    /\ salesHistory = <<>>

\* the sales of `sales` dated `day` and paid by `method`
ofDay(sales, day, method) ==
    SelectSeq(sales, LAMBDA s : s.dateTime = day /\ s.paymentMethod = method)

sameSale(a, b) ==
    /\ a.dateTime = b.dateTime
    /\ a.paymentMethod = b.paymentMethod
    /\ a.items = b.items
    /\ a.totalAmount = b.totalAmount

\* C11: a sale recorded by onSubmit is in the 'salesHistory' local-storage
\* entry, so what GraficaPage loads contains it and the incomes CajaPage
\* computes for its day include its amount.
C11_RecordedSaleIsStored ==
    /\ \A i \in DOMAIN salesHistory :
           \E j \in DOMAIN parse(localStorage.salesHistory) :
               sameSale(parse(localStorage.salesHistory)[j], salesHistory[i])
    /\ caja.today # 0 =>
           /\ caja.dailyCashIncome >= sumAmounts(ofDay(salesHistory, caja.today, "cash"))
           /\ caja.dailyCardIncome >= sumAmounts(ofDay(salesHistory, caja.today, "card"))
           /\ caja.dailyTransferIncome
                  >= sumAmounts(ofDay(salesHistory, caja.today, "transfer"))

\* the rows of the breakdown matrix, as positions <<group, index>>
matrixRows ==
    {<<g, i>> \in (DOMAIN desglose.productSalesMatrixByBrand) \X (1..3) :
        i \in DOMAIN desglose.productSalesMatrixByBrand[g].products}

rowAt(position) ==
    desglose.productSalesMatrixByBrand[position[1]].products[position[2]]

RECURSIVE sumOfDays(_, _, _)
sumOfDays(row, from, to) ==
    IF from > to THEN 0
    ELSE row.dailySales[format(from)] + sumOfDays(row, from + 1, to)

RECURSIVE quantityIn(_, _)
quantityIn(items, barcode) ==
    IF items = <<>> THEN 0
    ELSE (IF Head(items).barcode = barcode THEN Head(items).quantity ELSE 0)
         + quantityIn(Tail(items), barcode)

\* the quantity of `barcode` over the items of the sales dated from..to
RECURSIVE quantitySold(_, _, _, _)
quantitySold(sales, barcode, from, to) ==
    IF sales = <<>> THEN 0
    ELSE (IF /\ Head(sales).dateTime # InvalidDate
             /\ Head(sales).dateTime >= from
             /\ Head(sales).dateTime <= to
          THEN quantityIn(Head(sales).items, barcode) ELSE 0)
         + quantitySold(Tail(sales), barcode, from, to)

inventoryBarcodes ==
    {inventory[p].brands[b].products[i].barcode :
        <<p, b, i>> \in {<<p, b, i>> \in (DOMAIN inventory) \X (1..3) \X (1..3) :
            /\ b \in DOMAIN inventory[p].brands
            /\ i \in DOMAIN inventory[p].brands[b].products}}

\* C12: for every row of the breakdown matrix, totalSalesInRange is the sum
\* of its dailySales over the days of the selected period and is the total
\* quantity of its barcode over the regular and wholesale sale items dated
\* inside the period; no row exists for a barcode outside the inventory, and
\* every inventory product is in exactly one brand group.
C12_BreakdownCountsEverySaleOnce ==
    LET from == desglose.selectedMonthDateRange.from
        to == desglose.selectedMonthDateRange.to
        combined == desglose.allSalesData \o desglose.allWholesaleSalesData
    IN  /\ \A position \in matrixRows :
               /\ rowAt(position).totalSalesInRange
                      = sumOfDays(rowAt(position), from, to)
               /\ rowAt(position).totalSalesInRange
                      = quantitySold(combined, rowAt(position).barcode, from, to)
               /\ rowAt(position).barcode \in inventoryBarcodes
        /\ \A barcode \in inventoryBarcodes :
               Cardinality({position \in matrixRows :
                               rowAt(position).barcode = barcode}) = 1

\* Product 101 sold 3 times in the period over a regular and a wholesale sale,
\* next to an item of an unknown barcode and a sale dated after the period.
C12_Witness ==
    /\ \E position \in matrixRows :
           /\ rowAt(position).barcode = "101"
           /\ rowAt(position).totalSalesInRange = 3
    /\ desglose.allWholesaleSalesData # <<>>
    /\ \E i \in DOMAIN desglose.allSalesData :
           desglose.allSalesData[i].dateTime > desglose.selectedMonthDateRange.to
    /\ \E i \in DOMAIN desglose.allSalesData :
           /\ desglose.allSalesData[i].dateTime = 2
           /\ quantityIn(desglose.allSalesData[i].items, "999") > 0

-----------------------------------------------------------------------------
(* Claims about the suggestion lists                                        *)

salesListOpen == \E index \in DOMAIN form.items : showSuggestionsForThisItem(index)

supplierListOpen ==
    \E index \in DOMAIN supplierForm.products : supplierShowSuggestionsForThisItem(index)

\* -1 <= activeSuggestionIndex < suggestions.length <= 7
indexInRange(list) ==
    /\ -1 <= list.activeSuggestionIndex
    /\ list.activeSuggestionIndex < Len(list.suggestions)
    /\ Len(list.suggestions) <= 7

\* the index one step down, and one step up, around a list of `length` items
cyclicNext(i, length) == IF i + 1 = length THEN 0 ELSE i + 1
cyclicPrevious(i, length) == IF i = 0 THEN length - 1 ELSE i - 1

\* The list was open, `before`, and a key was pressed that left it `after`:
\* ArrowDown and ArrowUp move the index around the list, which stays as it
\* was (ArrowUp from -1 lands inside the list), and Escape puts the index
\* back to -1 and closes the list.
keyMoves(key, before, after, openAfter) ==
    LET i == before.activeSuggestionIndex
        length == Len(before.suggestions)
    IN  /\ key = "ArrowDown" =>
               /\ after.activeSuggestionIndex = cyclicNext(i, length)
               /\ after.suggestions = before.suggestions /\ openAfter
        /\ key = "ArrowUp" =>
               /\ i >= 0 => after.activeSuggestionIndex = cyclicPrevious(i, length)
               /\ after.activeSuggestionIndex \in 0..(length - 1)
               /\ after.suggestions = before.suggestions /\ openAfter
        /\ key = "Escape" =>
               after.activeSuggestionIndex = -1 /\ ~openAfter

C13_Step ==
    /\ tableOpen' => indexInRange(inventoryTable')
    /\ salesListOpen' => indexInRange(salesSuggest')
    /\ supplierListOpen' => indexInRange(supplierSuggest')
    /\ \A key \in {"ArrowDown", "ArrowUp", "Escape"} :
           /\ tableOpen /\ TableKeyDown(key) =>
                  keyMoves(key, inventoryTable, inventoryTable', tableOpen')
           /\ \A index \in 1..MaxItems :
                  /\ index \in DOMAIN form.items /\ showSuggestionsForThisItem(index)
                     /\ SalesKeyDown(index, key) =>
                         keyMoves(key, salesSuggest, salesSuggest', salesListOpen')
                  /\ index \in DOMAIN supplierForm.products
                     /\ supplierShowSuggestionsForThisItem(index)
                     /\ SupplierKeyDown(index, key) =>
                         keyMoves(key, supplierSuggest, supplierSuggest', supplierListOpen')

\* C13: in the inventory search, the sales form and the supplier form, after
\* any typing, focus, ArrowDown, ArrowUp, Enter, Escape (and click), a
\* suggestion list that is shown has -1 <= activeSuggestionIndex <
\* suggestions.length <= 7; on an open list ArrowDown and ArrowUp move the
\* index cyclically and Escape sets it to -1 and closes the list.
C13_ActiveSuggestionInRange == [][C13_Step]_vars

\* The list of the sales form is open with seven suggestions and the arrow
\* keys have taken the index to the last of them.
C13_Witness ==
    /\ salesListOpen
    /\ Len(salesSuggest.suggestions) = 7
    /\ salesSuggest.activeSuggestionIndex = 6
====
